---- MODULE Spec2Model ----
(***************************************************************************)
(* Scan-and-score backend of the Solana alpha-hunter server                *)
(* (src/unnamed/part_000, the TypeScript server; src/unnamed/part_001 is   *)
(* its older JavaScript variant).                                          *)
(*                                                                         *)
(* The server is one Node.js process: every handler runs to its next       *)
(* `await` without interleaving.  Each action below is therefore one       *)
(* synchronous block of the source, from the resumption of an awaited      *)
(* call (or the arrival of a request / timer / socket event) up to the     *)
(* next await or the end of the handler.                                   *)
(***************************************************************************)
EXTENDS Integers, Sequences, FiniteSets, TLC

(***************************************************************************)
(* Bounds of the model                                                     *)
(***************************************************************************)
\* number of scan cycles that may be started in one behaviour
MaxScans == 2
\* number of sockets that may connect in one behaviour
MaxClients == 1
\* number of monitored accounts (a prefix of ALPHA_HUNTERS)
NumHunters == 2
\* posts returned by one timeline read
MaxTweets == 1
\* monitored accounts and posts per timeline read in the behaviours of
\* ScanSpec, which follow one cycle through richer answers
ScanHunters == 3
ScanTweets == 2

(***************************************************************************)
(* Program constants                                                       *)
(***************************************************************************)
ALPHA_HUNTERS == <<"degenspartan", "SolBigBrain", "0xSisyphus", "thedefiedge",
                   "DegenTrades", "CryptoGodJohn", "alphakek", "solana_daily",
                   "OnChainWizard", "CryptoMillions", "SolanaLegend",
                   "DegenAlpha", "SolanaNews", "coinflipper", "TraderSZ",
                   "SolanaFloor">>

\* the accounts the model scans: a prefix of ALPHA_HUNTERS, the first
\* NumHunters in Spec and the first ScanHunters in ScanSpec
Hunters == SubSeq(ALPHA_HUNTERS, 1,
                  IF NumHunters > ScanHunters THEN NumHunters ELSE ScanHunters)

HunterSet == { Hunters[i] : i \in 1..Len(Hunters) }

topHunters == {"degenspartan", "SolBigBrain", "0xSisyphus", "thedefiedge"}

\* addresses that posts may mention: strings that extractSolanaAddresses
\* accepts
Addresses == {"A1", "A2"}

\* what DexScreener returned for an address: no pair (null) or the first pair
NoDex == [present |-> FALSE, liquidity |-> 0, volume24h |-> 0,
          priceChange24h |-> 0, verified |-> FALSE]

\* what getContractInfo returned: null (no account, or RPC error) or the
\* snapshot; ageMinutes stands for Date.now() - deployedAt
NoInfo == [exists |-> FALSE, ageMinutes |-> 0, holderRisk |-> 0,
           totalSignatures |-> 0]

\* The answers the outside world may give in a behaviour of Spec:
\*   texts  the address lists extractSolanaAddresses may return for a post
\*          (text order, one entry per regex match)
\*   likes  the like counts a post may carry
\*   kw     whether a post's text may hold, or lack, a cryptoKeyword
\*   dex    the results of getDexScreenerData
\*   info   the results of getContractInfo
\*   hunters, tweets  the length of the scanned prefix of ALPHA_HUNTERS and
\*          the largest number of posts one timeline read returns
ServeInputs ==
  [hunters |-> NumHunters,
   tweets |-> MaxTweets,
   texts |-> { <<"A1", "A2">> },
   likes |-> {0},
   kw    |-> {TRUE},
   dex   |-> { NoDex },
   info  |-> { NoInfo,
               [exists |-> TRUE, ageMinutes |-> 10, holderRisk |-> 50,
                totalSignatures |-> 1000],
               [exists |-> TRUE, ageMinutes |-> 20000, holderRisk |-> 50,
                totalSignatures |-> 1000] }]

(***************************************************************************)
(* Scorer                                                                  *)
(***************************************************************************)
Min(a, b) == IF a < b THEN a ELSE b
Max(a, b) == IF a > b THEN a ELSE b

RECURSIVE SumLikes(_)
SumLikes(tw) == IF tw = <<>> THEN 0
                ELSE Head(tw).like_count + SumLikes(Tail(tw))

RECURSIVE SumEngagement(_)
SumEngagement(tw) == IF tw = <<>> THEN 0
                     ELSE Head(tw).like_count + Head(tw).retweet_count
                          + SumEngagement(Tail(tw))

\* the score in tenths before rounding and clamping (holderRisk * 0.3 is the
\* only fractional term)
RiskTenths(info, tweetData, mentions, dexData) ==
  LET age == info.ageMinutes
      n   == Len(mentions)
      eng == SumEngagement(tweetData)
      ageAdj == IF age < 30 THEN 40
                ELSE IF age < 60 THEN 25
                ELSE IF age < 1440 THEN 10
                ELSE IF age > 10080 THEN -15 ELSE 0
      menAdj == IF n > 5 THEN -25
                ELSE IF n > 2 THEN -15
                ELSE IF n = 1 THEN 20 ELSE 0
      engAdj == IF eng > 500 THEN -20
                ELSE IF eng > 100 THEN -10
                ELSE IF eng < 10 THEN 15 ELSE 0
      liqAdj == IF dexData.liquidity > 50000 THEN -20
                ELSE IF dexData.liquidity > 10000 THEN -10
                ELSE IF dexData.liquidity < 1000 THEN 25 ELSE 0
      volAdj == IF dexData.volume24h > 100000 THEN -15
                ELSE IF dexData.volume24h < 1000 THEN 10 ELSE 0
      verAdj == IF dexData.verified THEN -15 ELSE 0
      dexAdj == IF dexData.present THEN liqAdj + volAdj + verAdj ELSE 20
      holdAdj == IF info.holderRisk # 0 THEN info.holderRisk * 3 ELSE 0
      sigAdj == IF info.totalSignatures > 1000 THEN -10
                ELSE IF info.totalSignatures < 10 THEN 15 ELSE 0
  IN  (50 + ageAdj + menAdj + engAdj + dexAdj + sigAdj) * 10 + holdAdj

\* Math.floor in the place of Math.round
FloorDiv(x, d) == x \div d

\* Math.round of x/d for d > 0: floor(x/d + 1/2)
RoundDiv(x, d) == (2 * x + d) \div (2 * d)

\* the verified flag of the market data not looked at
RiskScoreWithoutVerified(info, tweetData, mentions, dexData) ==
  Max(0, Min(100, RoundDiv(RiskTenths(info, tweetData, mentions,
                                      [dexData EXCEPT !.verified = FALSE]),
                           10)))

\* the rounded sum returned as it is
UnclampedRiskScore(info, tweetData, mentions, dexData) ==
  RoundDiv(RiskTenths(info, tweetData, mentions, dexData), 10)

calculateRiskScore(info, tweetData, mentions, dexData) ==
  Max(0, Min(100, RoundDiv(RiskTenths(info, tweetData, mentions, dexData), 10)))

SeqToSet(s) == { s[i] : i \in 1..Len(s) }

\* every else dropped: each threshold pushes its tag on its own
TagsWithoutElse(info, riskScore, ageMinutes, mentions, dexData) ==
  (IF riskScore < 30 THEN {"LOW_RISK"} ELSE {})
  \cup (IF riskScore > 70 THEN {"HIGH_RISK"} ELSE {})
  \cup (IF ageMinutes < 30 THEN {"ULTRA_FRESH"} ELSE {})
  \cup (IF ageMinutes < 60 THEN {"FRESH"} ELSE {})
  \cup (IF ageMinutes < 1440 THEN {"NEW"} ELSE {})
  \cup (IF Len(mentions) > 4 THEN {"TRENDING"} ELSE {})
  \cup (IF Len(mentions) > 2 THEN {"POPULAR"} ELSE {})
  \cup (IF SeqToSet(mentions) \cap topHunters # {} THEN {"ALPHA_HUNTER"}
        ELSE {})
  \cup (IF dexData.present /\ dexData.volume24h > 100000
        THEN {"HIGH_VOLUME"} ELSE {})
  \cup (IF dexData.present /\ dexData.liquidity > 50000
        THEN {"GOOD_LIQUIDITY"} ELSE {})
  \cup (IF dexData.present /\ dexData.priceChange24h > 50
        THEN {"PUMPING"} ELSE {})
  \cup (IF dexData.present /\ dexData.priceChange24h < -20
        THEN {"DUMPING"} ELSE {})
  \cup (IF dexData.present /\ dexData.verified THEN {"VERIFIED"} ELSE {})
  \cup (IF ~dexData.present THEN {"NO_DEX_DATA"} ELSE {})

generateTags(info, riskScore, ageMinutes, mentions, dexData) ==
  (IF riskScore < 30 THEN {"LOW_RISK"}
   ELSE IF riskScore > 70 THEN {"HIGH_RISK"} ELSE {})
  \cup
  (IF ageMinutes < 30 THEN {"ULTRA_FRESH"}
   ELSE IF ageMinutes < 60 THEN {"FRESH"}
   ELSE IF ageMinutes < 1440 THEN {"NEW"} ELSE {})
  \cup
  (IF Len(mentions) > 4 THEN {"TRENDING"}
   ELSE IF Len(mentions) > 2 THEN {"POPULAR"} ELSE {})
  \cup
  (IF SeqToSet(mentions) \cap topHunters # {} THEN {"ALPHA_HUNTER"} ELSE {})
  \cup
  (IF dexData.present
   THEN (IF dexData.volume24h > 100000 THEN {"HIGH_VOLUME"} ELSE {})
        \cup (IF dexData.liquidity > 50000 THEN {"GOOD_LIQUIDITY"} ELSE {})
        \cup (IF dexData.priceChange24h > 50 THEN {"PUMPING"}
              ELSE IF dexData.priceChange24h < -20 THEN {"DUMPING"} ELSE {})
        \cup (IF dexData.verified THEN {"VERIFIED"} ELSE {})
   ELSE {"NO_DEX_DATA"})

\* Math.round(Math.min(100, mentions*12 + likes/15))
SocialScore(mentions, tweetData) ==
  Min(100, RoundDiv(Len(mentions) * 180 + SumLikes(tweetData), 15))

\* the liquidity score without its bounds
LiquidityScoreUnclamped(dexData, riskScore) ==
  IF dexData.present THEN RoundDiv(dexData.liquidity, 1000)
  ELSE 100 - riskScore

\* Math.round of the liquidity score
LiquidityScore(dexData, riskScore) ==
  IF dexData.present
  THEN Min(100, Max(10, RoundDiv(dexData.liquidity, 1000)))
  ELSE Max(20, 100 - riskScore)

\* the Contract pushed for one address (the fields the ranking, the cache
\* readers and the tags use)
MakeContract(address, info, dexData, mentions, tweetData) ==
  LET risk == calculateRiskScore(info, tweetData, mentions, dexData)
  IN  [address |-> address,
       mentionedBy |-> mentions,
       tweets |-> tweetData,
       riskScore |-> risk,
       liquidityScore |-> LiquidityScore(dexData, risk),
       socialScore |-> SocialScore(mentions, tweetData),
       tags |-> generateTags(info, risk, info.ageMinutes, mentions, dexData),
       ageMinutes |-> info.ageMinutes,
       hasDex |-> dexData.present]

\* ten times the composite key of the comparator (socialScore / 10 is the
\* only fractional term)
RankKey(c) == Len(c.mentionedBy) * 100 + (100 - c.riskScore) * 10 + c.socialScore

\* the list left in the order of the pushes
AppendUnranked(sorted, c) == Append(sorted, c)

\* c put before the entries of equal key
RECURSIVE InsertBeforeTies(_, _)
InsertBeforeTies(sorted, c) ==
  IF sorted = <<>> THEN <<c>>
  ELSE IF RankKey(Head(sorted)) > RankKey(c)
       THEN <<Head(sorted)>> \o InsertBeforeTies(Tail(sorted), c)
       ELSE <<c>> \o sorted

\* insert c behind every entry whose key is not smaller: stable, descending
RECURSIVE InsertRanked(_, _)
InsertRanked(sorted, c) ==
  IF sorted = <<>> THEN <<c>>
  ELSE IF RankKey(Head(sorted)) >= RankKey(c)
       THEN <<Head(sorted)>> \o InsertRanked(Tail(sorted), c)
       ELSE <<c>> \o sorted

\* contracts.sort(...) with the composite comparator (Array.prototype.sort
\* is stable)
RECURSIVE SortContracts(_)
SortContracts(cs) ==
  IF cs = <<>> THEN <<>>
  ELSE InsertRanked(SortContracts(SubSeq(cs, 1, Len(cs) - 1)), cs[Len(cs)])

(***************************************************************************)
(* State                                                                   *)
(***************************************************************************)
VARIABLES
  contractsCache,   \* let contractsCache: Contract[]
  lastScanTime,     \* let lastScanTime: Date | null   (0 stands for null)
  scanInProgress,   \* let scanInProgress
  tweetIdCache,     \* Map username -> id of the newest post seen (0: unset)
  scans,            \* the performScan invocations: locals and await position
  nextScan,         \* number of cycles started so far
  now,              \* the wall clock read by new Date()
  events,           \* io.emit broadcasts since the last cycle started
  clients,          \* the sockets: connection state and what they received
  pending,          \* HTTP requests whose handler awaits performScan
  startupFired,     \* the setTimeout of server.listen has fired
  cycle,            \* what the cycle started last found and did
  published,        \* the (list, timestamp) pairs the publish steps wrote
  inputs,           \* the answers the outside world may give (fixed)
  lastStep,         \* the handler that ran last, what it did and answered
  scored,           \* one call of the Scorer: its arguments and results
  built,            \* the scoring path of performScan run on one address
  parsed,           \* one post text, filtered and searched for addresses
  limiter,          \* the request limiter of the client and its callers
  chain,            \* one address on chain, inspected by getContractInfo
  fetcher,          \* one call of fetchWithBackoff of the client
  tracker           \* one order followed by trackTransaction

vars == <<contractsCache, lastScanTime, scanInProgress, tweetIdCache, scans,
          nextScan, now, events, clients, pending, startupFired, cycle,
          published, inputs, lastStep, scored, built, parsed, limiter,
          chain, fetcher, tracker>>

\* the state of the server
server == <<contractsCache, lastScanTime, scanInProgress, tweetIdCache, scans,
            nextScan, now, events, clients, pending, startupFired, cycle,
            published, lastStep>>

\* the variables that follow one function or the client on its own
apart == <<chain, fetcher, tracker>>
aside == <<scored, built, parsed, limiter, apart>>

ScanIds == 1..MaxScans
ClientIds == 1..MaxClients
Endpoints == {"GET /api/scan", "POST /api/scan/trigger", "GET /api/status"}

EmptyMap == [a \in Addresses |-> <<>>]

\* the locals of one performScan invocation; inspected lists what
\* getContractInfo returned for the addresses processed so far
NoFrame == [pc |-> "none", hi |-> 0, addrs |-> <<>>, mentionMap |-> EmptyMap,
            tweetMap |-> EmptyMap, contracts |-> <<>>, processedCount |-> 0,
            info |-> NoInfo, dex |-> NoDex, inspected |-> <<>>]

\* the record of the cycle started last: the Result Cache it found, how it
\* ended ("" while it runs), the list and timestamp it wrote, if any, and
\* the number of its timeline reads that threw; for each source read, whether
\* the read succeeded, the addresses its relevant posts held, the number of
\* posts the API returned, the id of the newest of them and whether one of
\* them had been returned to an earlier read of the source; once it has
\* ended, the addresses in discovery order, the inspection result of each
\* and the accounts that mentioned each; and, over all cycles, the largest
\* post id returned for each source (seen)
NoCycle == [id |-> 0, outcome |-> "", wrote |-> FALSE, result |-> <<>>,
            at |-> 0, cacheBefore |-> <<>>, timeBefore |-> 0,
            failedFetches |-> 0, fetched |-> <<>>, addrs |-> <<>>,
            inspected |-> <<>>, mentionMap |-> EmptyMap,
            seen |-> [h \in HunterSet |-> 0]]

NoResp == [status |-> 0, success |-> FALSE, data |-> <<>>, lastUpdate |-> 0,
           scanInProgress |-> FALSE, cachedContracts |-> 0]

\* lastStep after a handler that sent no HTTP response and skipped no call,
\* after a call of performScan that was skipped, and after a response
Quiet == [op |-> "", res |-> "", body |-> NoResp]
Step(op, res) == [op |-> op, res |-> res, body |-> NoResp]
Answer(op, res, body) == [op |-> op, res |-> res, body |-> body]

NewClient == [state |-> "new", direct |-> 0, last |-> <<>>,
              lastUpdate |-> 0]

\* no call of the Scorer is being followed
NoScored == [applied |-> FALSE, info |-> NoInfo, dexData |-> NoDex,
             mentions |-> <<>>, tweetData |-> <<>>, riskScore |-> 0,
             tags |-> {}]

\* no address is being taken through the scoring path
NoBuilt == [info |-> NoInfo, dexData |-> NoDex, marketCap |-> 0,
            holder |-> 0, mentions |-> <<>>, tweetData |-> <<>>,
            runs |-> <<>>]

\* no post text is being followed
NoParsed == [given |-> FALSE, text |-> <<>>, filterDone |-> FALSE,
             relevant |-> FALSE, extractDone |-> FALSE, addresses |-> <<>>]

\* the client is not being followed
NoLimiter == [on |-> FALSE, requestHistory |-> <<>>, lastRequestTime |-> 0,
              clock |-> 0, callers |-> <<>>, admitted |-> <<>>]

\* the variables that follow one function or the client, at rest
\* no address is being inspected
NoChain == [account |-> FALSE, fails |-> "none", supply |-> 0,
            largestAccounts |-> <<>>, signatures |-> 0, age |-> 0,
            done |-> FALSE, info |-> NoInfo, riskScore |-> 0]

\* no request is being followed
NoFetcher == [on |-> FALSE, retries |-> 0, baseDelay |-> 0, i |-> 0,
              pc |-> "", attempts |-> <<>>, waits |-> <<>>, delays |-> <<>>,
              thrown |-> [attempt |-> 0, status |-> 0, message |-> ""]]

\* no order is being followed; elapsed is Date.now() - startTime, final the
\* first final status a poll reported
NoTracker == [on |-> FALSE, side |-> "", pc |-> "", elapsed |-> 0,
              lastStatus |-> "", polls |-> 0, final |-> "", message |-> ""]

ApartInit == chain = NoChain /\ fetcher = NoFetcher /\ tracker = NoTracker

AsideInit ==
  built = NoBuilt /\ parsed = NoParsed /\ limiter = NoLimiter /\ ApartInit

\* the server after its start: module-level state, no socket, no request
ServerInit ==
  /\ contractsCache = <<>>
  /\ lastScanTime = 0
  /\ scanInProgress = FALSE
  /\ tweetIdCache = [h \in HunterSet |-> 0]
  /\ scans = [s \in ScanIds |-> NoFrame]
  /\ nextScan = 0
  /\ now = 0
  /\ events = <<>>
  /\ clients = [c \in ClientIds |-> NewClient]
  /\ pending = {}
  /\ startupFired = FALSE
  /\ cycle = NoCycle
  /\ published = {}
  /\ lastStep = Quiet

Init ==
  /\ ServerInit
  /\ inputs = ServeInputs
  /\ scored = NoScored
  /\ AsideInit

(***************************************************************************)
(* Fan-out                                                                 *)
(***************************************************************************)
\* flag: the value of scanInProgress when the event is emitted
StatusEv(inProgress, stage, lastScan, flag) ==
  [type |-> "scan-status", inProgress |-> inProgress, stage |-> stage,
   lastScan |-> lastScan, contracts |-> <<>>, flag |-> flag]

UpdateEv(contracts, lastUpdate, flag) ==
  [type |-> "contracts-update", inProgress |-> FALSE, stage |-> <<"", 0>>,
   lastScan |-> lastUpdate, contracts |-> contracts, flag |-> flag]

ErrorEv(flag) ==
  [type |-> "scan-error", inProgress |-> FALSE, stage |-> <<"", 0>>,
   lastScan |-> 0, contracts |-> <<>>, flag |-> flag]

\* what one socket keeps of a contracts-update
Receive(cl, ev) ==
  IF ev.type = "contracts-update"
  THEN [cl EXCEPT !.last = ev.contracts, !.lastUpdate = ev.lastScan]
  ELSE cl

RECURSIVE ReceiveAll(_, _)
ReceiveAll(cl, evs) ==
  IF evs = <<>> THEN cl ELSE ReceiveAll(Receive(cl, Head(evs)), Tail(evs))

\* io.emit: every connected socket receives the events
Broadcast(cls, evs) ==
  [c \in ClientIds |-> IF cls[c].state = "connected"
                       THEN ReceiveAll(cls[c], evs) ELSE cls[c]]

(***************************************************************************)
(* REST bodies                                                             *)
(***************************************************************************)
ScanBody(cache, time, flag) ==
  [status |-> 200, success |-> TRUE, data |-> cache, lastUpdate |-> time,
   scanInProgress |-> flag, cachedContracts |-> Len(cache)]

StatusBody(cache, time, flag) ==
  [status |-> 200, success |-> TRUE, data |-> <<>>, lastUpdate |-> time,
   scanInProgress |-> flag, cachedContracts |-> Len(cache)]

TriggerStarted ==
  [status |-> 200, success |-> TRUE, data |-> <<>>, lastUpdate |-> 0,
   scanInProgress |-> FALSE, cachedContracts |-> 0]

TriggerBusy ==
  [status |-> 429, success |-> FALSE, data |-> <<>>, lastUpdate |-> 0,
   scanInProgress |-> FALSE, cachedContracts |-> 0]

\* the body a handler sends once the performScan it awaited has returned
BodyAfterAwait(endpoint, cache, time, flag) ==
  IF endpoint = "GET /api/scan" THEN ScanBody(cache, time, flag)
  ELSE TriggerStarted

(***************************************************************************)
(* Source Reader                                                           *)
(***************************************************************************)
\* what a post can be: the addresses its text yields, its like and retweet
\* counts, and whether its text holds one of the cryptoKeywords
TweetBodies == [addrs : inputs.texts, like_count : inputs.likes,
                retweet_count : {0},
                kw : inputs.kw]

\* the timelines the API may return for since_id = cursor: at most
\* inputs.tweets
\* posts, all newer than the cursor, newest first
RawTimelines(cursor) ==
  UNION { { [i \in 1..n |-> [id |-> cursor + n + 1 - i,
                             addrs |-> b[i].addrs,
                             like_count |-> b[i].like_count,
                             retweet_count |-> b[i].retweet_count,
                             kw |-> b[i].kw]] : b \in [1..n -> TweetBodies] }
          : n \in 0..inputs.tweets }

\* tweets.filter(...) of fetchAlphaHunterTweets
RelevantTweets(raw) == SelectSeq(raw, LAMBDA t : t.kw)

\* the value fetchAlphaHunterTweets resolves to: [] when the request threw
FetchedTweets(ok, raw) == IF ok THEN RelevantTweets(raw) ELSE <<>>

(***************************************************************************)
(* Aggregation of one source's posts into the per-cycle maps               *)
(***************************************************************************)
\* the account pushed for every post that holds the address
NeverMentions(list, hunter) == FALSE

\* mentionMap.get(address).includes(hunter)
AlreadyMentions(list, hunter) == hunter \in SeqToSet(list)

AddMention(f, hunter, tweet, address) ==
  [f EXCEPT
     !.addrs = IF address \in SeqToSet(@) THEN @ ELSE Append(@, address),
     !.mentionMap[address] = IF AlreadyMentions(@, hunter) THEN @
                             ELSE Append(@, hunter),
     !.tweetMap[address] = Append(@, [id |-> tweet.id,
                                      like_count |-> tweet.like_count,
                                      retweet_count |-> tweet.retweet_count,
                                      username |-> hunter])]

RECURSIVE MergeAddresses(_, _, _, _)
MergeAddresses(f, hunter, tweet, as) ==
  IF as = <<>> THEN f
  ELSE MergeAddresses(AddMention(f, hunter, tweet, Head(as)), hunter, tweet,
                      Tail(as))

RECURSIVE MergeTweets(_, _, _)
MergeTweets(f, hunter, tweets) ==
  IF tweets = <<>> THEN f
  ELSE MergeTweets(MergeAddresses(f, hunter, Head(tweets), Head(tweets).addrs),
                   hunter, Tail(tweets))

\* the cursor cleared by a read without posts
CursorResetWhenEmpty(cache, hunter, tweets) ==
  [cache EXCEPT ![hunter] = IF Len(tweets) > 0 THEN tweets[1].id ELSE 0]

\* if (tweets.length > 0) setLastTweetId(hunter, tweets[0].id)
CursorAfter(cache, hunter, tweets) ==
  IF Len(tweets) > 0 THEN [cache EXCEPT ![hunter] = tweets[1].id] ELSE cache

(***************************************************************************)
(* Scan Orchestrator: performScan                                          *)
(***************************************************************************)
\* the guard dropped: every call starts a cycle
NeverInProgress == FALSE

\* if (scanInProgress) { ...skipping...; return; }
AlreadyInProgress == scanInProgress

\* the list replaced, the timestamp left for later
PublishCacheStaleTime(contracts, t, oldTime) ==
  [cache |-> contracts, time |-> oldTime]

\* the new list put in front of the old one
PublishCacheMerged(contracts, t, oldTime) ==
  [cache |-> contracts \o contractsCache, time |-> t]

\* contractsCache = contracts; lastScanTime = new Date();
PublishCache(contracts, t, oldTime) == [cache |-> contracts, time |-> t]

\* the update emitted a second time
PublishEventsTwice(cache, time) ==
  <<UpdateEv(cache, time, TRUE), UpdateEv(cache, time, TRUE)>>

\* io.emit('contracts-update', {contracts: contractsCache, lastUpdate:
\* lastScanTime, stats}) at the end of the try block
PublishEvents(cache, time) == <<UpdateEv(cache, time, TRUE)>>

\* the root catch: io.emit('scan-error', ...)
CatchEvents == <<ErrorEv(TRUE)>>

\* the flag cleared at the end of the try block instead of in finally
FlagClearedOnSuccessOnly(outcome) == outcome = "error"

\* the final status emitted before the flag is cleared
FinalEventsBeforeClear(time) == <<StatusEv(FALSE, <<"", 0>>, time, TRUE)>>

\* the finally block: scanInProgress = false, then
\* io.emit('scan-status', {inProgress: false, lastScan: lastScanTime})
FlagAfterFinally(outcome) == FALSE
FinalEvents(time) == <<StatusEv(FALSE, <<"", 0>>, time, FlagAfterFinally("ok"))>>

\* the step goes on inside the cycle: the frame is stored, the events of the
\* step are broadcast, the Result Cache is not touched
Proceed(s, f, evs) ==
  /\ scans' = [scans EXCEPT ![s] = f]
  /\ events' = events \o evs
  /\ clients' = Broadcast(clients, evs)
  /\ lastStep' = Quiet
  /\ UNCHANGED <<contractsCache, lastScanTime, scanInProgress, pending,
                 published>>

Continue(s, f, evs) == Proceed(s, f, evs) /\ UNCHANGED cycle

\* the end of performScan: evs are the events of the step up to the finally
\* block, cache and time the Result Cache the step leaves.  The finally block
\* clears the flag and emits the final scan-status; the handlers awaiting
\* this call resume in the same turn and send their response.
EndCycle(s, f, evs, cache, time, outcome, wrote) ==
  LET all == evs \o FinalEvents(time)
  IN  /\ contractsCache' = cache
      /\ lastScanTime' = time
      /\ scanInProgress' = FlagAfterFinally(outcome)
      /\ published' = IF wrote
                       THEN published \cup
                              {[cache |-> SortContracts(f.contracts),
                                time |-> now]}
                       ELSE published
      /\ events' = events \o all
      /\ clients' = Broadcast(clients, all)
      /\ scans' = [scans EXCEPT ![s] = [NoFrame EXCEPT !.pc = "done"]]
      /\ cycle' = IF cycle.id = s
                   THEN [cycle EXCEPT !.outcome = outcome, !.wrote = wrote,
                                      !.result = IF wrote THEN SortContracts(f.contracts)
                                                 ELSE <<>>,
                                      !.at = IF wrote THEN now ELSE 0,
                                      !.addrs = f.addrs,
                                      !.inspected = f.inspected,
                                      !.mentionMap = f.mentionMap]
                   ELSE cycle
      /\ pending' = { p \in pending : p.scan # s }
      /\ lastStep' =
           IF \E p \in pending : p.scan = s
           THEN LET p == CHOOSE q \in pending : q.scan = s
                IN  Answer(p.endpoint, "answered after scan",
                           BodyAfterAwait(p.endpoint, cache, time, FALSE))
           ELSE Quiet

\* an exception reaches the root catch before the cache was replaced
Fail(s, f, evs) ==
  EndCycle(s, f, evs \o CatchEvents, contractsCache, lastScanTime,
           "error", FALSE)

\* contracts.sort(...), the cache replacement and the contracts-update.
\* thrown: the statement of the try block that throws, if any
Publish(s, f, evs) ==
  \E thrown \in {"none", "sort", "emit"} :
    LET sorted == SortContracts(f.contracts)
        pair == PublishCache(sorted, now, lastScanTime)
    IN  CASE thrown = "sort" -> Fail(s, f, evs)
          [] thrown = "emit" ->
               EndCycle(s, f, evs \o CatchEvents, pair.cache, pair.time,
                        "error", TRUE)
          [] thrown = "none" ->
               EndCycle(s, f, evs \o PublishEvents(pair.cache, pair.time),
                        pair.cache, pair.time, "ok", TRUE)

\* head of the loop over contractAddresses
NextAddress(s, f, evs) ==
  IF f.processedCount < Len(f.addrs)
  THEN LET k == f.processedCount + 1
           progress == IF k % 5 = 0
                       THEN <<StatusEv(TRUE, <<"Processing contracts", k>>,
                                       0, TRUE)>>
                       ELSE <<>>
       IN  Continue(s, [f EXCEPT !.processedCount = k, !.pc = "info",
                                 !.info = NoInfo, !.dex = NoDex],
                    evs \o progress)
  ELSE Publish(s, f, evs)

\* the synchronous prefix of performScan up to the first await
StartCycle(s) ==
  LET evs == << StatusEv(TRUE, <<"Fetching tweets", 0>>, 0, TRUE),
                StatusEv(TRUE, <<"Scanning", 1>>, 0, TRUE) >>
  IN  /\ scanInProgress' = TRUE
      /\ nextScan' = s
      /\ now' = now + 1
      /\ scans' = [scans EXCEPT ![s] = [NoFrame EXCEPT !.pc = "fetch",
                                                        !.hi = 1]]
      /\ cycle' = [NoCycle EXCEPT !.id = s, !.cacheBefore = contractsCache,
                                  !.timeBefore = lastScanTime,
                                  !.seen = cycle.seen]
      /\ events' = evs
      /\ clients' = Broadcast(clients, evs)
      /\ UNCHANGED <<contractsCache, lastScanTime, tweetIdCache, published>>

\* a failed timeline read rethrown to the root catch of performScan
FailedFetchEscapes(ok) == ~ok

\* fetchAlphaHunterTweets catches every error of the read and returns [];
\* what the loop body throws is caught by the loop's own try / catch
FetchEscapesGuard(ok) == FALSE

\* await fetchAlphaHunterTweets(hunter, 20) settles
FetchDone(s) ==
  /\ UNCHANGED <<inputs, aside>>
  /\ scans[s].pc = "fetch"
  /\ LET f == scans[s]
         hunter == Hunters[f.hi]
     IN  \E ok \in BOOLEAN, raw \in RawTimelines(tweetIdCache[hunter]) :
           LET tweets == FetchedTweets(ok, raw)
           IN  IF FetchEscapesGuard(ok)
               THEN /\ Fail(s, f, <<>>)
                    /\ UNCHANGED tweetIdCache
               ELSE
               /\ tweetIdCache' = CursorAfter(tweetIdCache, hunter, tweets)
               /\ Proceed(s, [MergeTweets(f, hunter, tweets)
                                EXCEPT !.pc = "hdelay"], <<>>)
               /\ cycle' =
                    IF cycle.id # s THEN cycle
                    ELSE [cycle EXCEPT
                            !.failedFetches = IF ok THEN @ ELSE @ + 1,
                            !.fetched = Append(@,
                              [ok |-> ok,
                               addrs |-> UNION { SeqToSet(tweets[i].addrs) :
                                                 i \in 1..Len(tweets) },
                               posts |-> IF ok THEN Len(raw) ELSE 0,
                               newest |-> IF ok /\ raw # <<>> THEN raw[1].id
                                          ELSE 0,
                               reread |-> ok /\ \E i \in 1..Len(raw) :
                                            raw[i].id <= cycle.seen[hunter]]),
                            !.seen[hunter] =
                              IF ok /\ raw # <<>> THEN Max(@, raw[1].id)
                              ELSE @]
  /\ UNCHANGED <<nextScan, now, startupFired>>

\* the pacing delay after a source has elapsed
HunterDelayDone(s) ==
  /\ UNCHANGED <<inputs, aside>>
  /\ scans[s].pc = "hdelay"
  /\ LET f == scans[s]
     IN  IF f.hi < inputs.hunters
         THEN Continue(s, [f EXCEPT !.hi = f.hi + 1, !.pc = "fetch"],
                       <<StatusEv(TRUE, <<"Scanning", f.hi + 1>>, 0, TRUE)>>)
         ELSE \/ Fail(s, f, <<>>)
              \/ NextAddress(s, f,
                   <<StatusEv(TRUE, <<"Processing", Len(f.addrs)>>, 0, TRUE)>>)
  /\ UNCHANGED <<tweetIdCache, nextScan, now, startupFired>>

\* every address older than 7 days dropped, however often it is mentioned
StaleAtAll(info, mentions) == info.ageMinutes > 10080

\* if (ageMinutes > 10080 && mentions.length < 3) continue;
StaleUnpopular(info, mentions) ==
  info.ageMinutes > 10080 /\ Len(mentions) < 3

\* await getContractInfo(address) settles
InfoDone(s) ==
  /\ UNCHANGED <<inputs, aside>>
  /\ scans[s].pc = "info"
  /\ LET f == scans[s]
         address == f.addrs[f.processedCount]
         mentions == f.mentionMap[address]
     IN  \E info \in inputs.info :
           LET g == [f EXCEPT !.inspected = Append(@, info)]
           IN  IF ~info.exists THEN NextAddress(s, g, <<>>)
               ELSE IF StaleUnpopular(info, mentions)
                    THEN NextAddress(s, g, <<>>)
                    ELSE Continue(s, [g EXCEPT !.info = info, !.pc = "dex"],
                                  <<>>)
  /\ UNCHANGED <<tweetIdCache, nextScan, now, startupFired>>

\* await getDexScreenerData(address) settles
DexDone(s) ==
  /\ UNCHANGED <<inputs, aside>>
  /\ scans[s].pc = "dex"
  /\ \E d \in inputs.dex :
       Continue(s, [scans[s] EXCEPT !.dex = d, !.pc = "meta"], <<>>)
  /\ UNCHANGED <<tweetIdCache, nextScan, now, startupFired>>

\* null returned when no metadata endpoint answered
MetadataOrNull(answered) == IF answered THEN "listed" ELSE "null"

\* getTokenMetadata: the data of the first endpoint that answers, else the
\* placeholder built from the address; never null
getTokenMetadata(answered) == IF answered THEN "listed" ELSE "placeholder"

\* await getTokenMetadata(address) settles; if (!tokenMeta) continue; the
\* contract is scored and pushed
MetaDone(s) ==
  /\ UNCHANGED <<inputs, aside>>
  /\ scans[s].pc = "meta"
  /\ LET f == scans[s]
         address == f.addrs[f.processedCount]
         c == MakeContract(address, f.info, f.dex, f.mentionMap[address],
                           f.tweetMap[address])
     IN  \E answered \in BOOLEAN :
           IF getTokenMetadata(answered) = "null"
           THEN NextAddress(s, f, <<>>)
           ELSE Continue(s, [f EXCEPT !.contracts = Append(@, c),
                                      !.pc = "adelay",
                                      !.info = NoInfo, !.dex = NoDex], <<>>)
  /\ UNCHANGED <<tweetIdCache, nextScan, now, startupFired>>

\* the pacing delay after an address has elapsed
AddressDelayDone(s) ==
  /\ UNCHANGED <<inputs, aside>>
  /\ scans[s].pc = "adelay"
  /\ NextAddress(s, scans[s], <<>>)
  /\ UNCHANGED <<tweetIdCache, nextScan, now, startupFired>>

ScanStep(s) ==
  \/ FetchDone(s)
  \/ HunterDelayDone(s)
  \/ InfoDone(s)
  \/ DexDone(s)
  \/ MetaDone(s)
  \/ AddressDelayDone(s)

(***************************************************************************)
(* Triggers and readers                                                    *)
(***************************************************************************)
\* a call of performScan by the handler op
PerformScan(op) ==
  IF AlreadyInProgress
  THEN /\ lastStep' = Step(op, "skipped")
       /\ UNCHANGED <<contractsCache, lastScanTime, scanInProgress,
                      tweetIdCache, scans, nextScan, now, events, clients,
                      cycle, published>>
  ELSE /\ nextScan < MaxScans
       /\ StartCycle(nextScan + 1)
       /\ lastStep' = Quiet

\* a handler that awaits the performScan it calls answers when the call has
\* returned: at once if the call was skipped
AwaitScan(endpoint) ==
  IF AlreadyInProgress
  THEN /\ lastStep' = Answer(endpoint, "answered",
                             BodyAfterAwait(endpoint, contractsCache,
                                            lastScanTime, scanInProgress))
       /\ UNCHANGED <<contractsCache, lastScanTime, scanInProgress,
                      tweetIdCache, scans, nextScan, now, events, clients,
                      cycle, published, pending>>
  ELSE /\ PerformScan(endpoint)
       /\ pending' = pending \cup {[endpoint |-> endpoint,
                                    scan |-> nextScan + 1]}

\* cron.schedule('*/10 * * * *', ...)
CronTick ==
  /\ UNCHANGED <<inputs, aside>>
  /\ PerformScan("cron")
  /\ UNCHANGED <<pending, startupFired>>

\* the setTimeout of server.listen, 5 s after the start
StartupTimer ==
  /\ UNCHANGED <<inputs, aside>>
  /\ ~startupFired
  /\ startupFired' = TRUE
  /\ PerformScan("startup")
  /\ UNCHANGED pending

\* io.on('connection'): the socket gets the current cache and status
Connect(c) ==
  /\ UNCHANGED <<inputs, aside>>
  /\ clients[c].state = "new"
  /\ \A d \in ClientIds : d < c => clients[d].state # "new"
  /\ clients' = [clients EXCEPT ![c] =
                   [state |-> "connected", direct |-> 1,
                    last |-> contractsCache, lastUpdate |-> lastScanTime]]
  /\ lastStep' = Quiet
  /\ UNCHANGED <<contractsCache, lastScanTime, scanInProgress, tweetIdCache,
                 scans, nextScan, now, events, pending, startupFired, cycle,
                 published>>

\* socket.on('disconnect')
Disconnect(c) ==
  /\ UNCHANGED <<inputs, aside>>
  /\ clients[c].state = "connected"
  /\ clients' = [clients EXCEPT ![c] =
                   [NewClient EXCEPT !.state = "gone",
                                     !.direct = clients[c].direct]]
  /\ lastStep' = Quiet
  /\ UNCHANGED <<contractsCache, lastScanTime, scanInProgress, tweetIdCache,
                 scans, nextScan, now, events, pending, startupFired, cycle,
                 published>>

\* socket.on('request-scan')
RequestScan(c) ==
  /\ UNCHANGED <<inputs, aside>>
  /\ clients[c].state = "connected"
  /\ IF ~scanInProgress
     THEN PerformScan("request-scan")
     ELSE /\ lastStep' = Quiet
          /\ UNCHANGED <<contractsCache, lastScanTime, scanInProgress,
                         tweetIdCache, scans, nextScan, now, events, clients,
                         cycle, published>>
  /\ UNCHANGED <<pending, startupFired>>

\* the cache is not looked at
NeedsScanWhenIdle == ~scanInProgress

\* if (contractsCache.length === 0 && !scanInProgress)
NeedsScan == Len(contractsCache) = 0 /\ ~scanInProgress

\* app.get('/api/scan'): awaits the scan it starts, then answers from the
\* cache
GetScan ==
  /\ UNCHANGED <<inputs, aside>>
  /\ IF NeedsScan
     THEN AwaitScan("GET /api/scan")
     ELSE /\ lastStep' = Answer("GET /api/scan", "answered",
                                ScanBody(contractsCache, lastScanTime,
                                         scanInProgress))
          /\ UNCHANGED <<contractsCache, lastScanTime, scanInProgress,
                         tweetIdCache, scans, nextScan, now, events, clients,
                         cycle, published, pending>>
  /\ UNCHANGED startupFired

\* app.get('/api/status')
GetStatus ==
  /\ UNCHANGED <<inputs, aside>>
  /\ lastStep' = Answer("GET /api/status", "answered",
                        StatusBody(contractsCache, lastScanTime,
                                   scanInProgress))
  /\ UNCHANGED <<contractsCache, lastScanTime, scanInProgress, tweetIdCache,
                 scans, nextScan, now, events, clients, pending, startupFired,
                 cycle, published>>

\* the handler leaves the check to performScan
NeverRejected == FALSE

\* if (scanInProgress) { res.status(429)...; return; }
TriggerRejected == scanInProgress

\* app.post('/api/scan/trigger'): 429 while a scan runs, else awaits the scan
\* it starts and answers "Scan started"
PostTrigger ==
  /\ UNCHANGED <<inputs, aside>>
  /\ IF TriggerRejected
     THEN /\ lastStep' = Answer("POST /api/scan/trigger", "answered",
                                TriggerBusy)
          /\ UNCHANGED <<contractsCache, lastScanTime, scanInProgress,
                         tweetIdCache, scans, nextScan, now, events, clients,
                         cycle, published, pending>>
     ELSE AwaitScan("POST /api/scan/trigger")
  /\ UNCHANGED startupFired

Next ==
  \/ CronTick
  \/ StartupTimer
  \/ \E c \in ClientIds : Connect(c)
  \/ \E c \in ClientIds : Disconnect(c)
  \/ \E c \in ClientIds : RequestScan(c)
  \/ GetScan
  \/ GetStatus
  \/ PostTrigger
  \/ \E s \in ScanIds : ScanStep(s)

Spec == Init /\ [][Next]_vars

(***************************************************************************)
(* One cycle on its own, started by the startup timer, over three accounts *)
(* with up to two posts per read, so that an address can have one to three *)
(* mentioning accounts, several posts of one account, either discovery     *)
(* order, and market data or none.                                         *)
(***************************************************************************)
GoodDex == [present |-> TRUE, liquidity |-> 60000, volume24h |-> 150000,
            priceChange24h |-> 0, verified |-> TRUE]

ScanInputs ==
  [hunters |-> ScanHunters,
   tweets |-> ScanTweets,
   texts |-> { <<"A1">>, <<"A2", "A1">> },
   likes |-> {0, 600},
   kw    |-> {TRUE},
   dex   |-> { NoDex, GoodDex },
   info  |-> { NoInfo,
               [exists |-> TRUE, ageMinutes |-> 10, holderRisk |-> 50,
                totalSignatures |-> 1000],
               [exists |-> TRUE, ageMinutes |-> 20000, holderRisk |-> 50,
                totalSignatures |-> 1000] }]

ScanInit ==
  /\ ServerInit
  /\ inputs = ScanInputs
  /\ scored = NoScored
  /\ AsideInit

ScanNext ==
  \/ StartupTimer
  \/ \E s \in ScanIds : ScanStep(s)

ScanSpec == ScanInit /\ [][ScanNext]_vars

(***************************************************************************)
(* Two cycles in a row, started by the cron job, with posts that pass the  *)
(* keyword filter and posts that do not: what the cursors do and what a    *)
(* later cycle keeps of an earlier one.                                    *)
(***************************************************************************)
CursorInputs ==
  [hunters |-> NumHunters,
   tweets |-> ScanTweets,
   texts |-> { <<"A1">>, <<"A1", "A1">> },
   likes |-> {30},
   kw    |-> BOOLEAN,
   dex   |-> { NoDex },
   info  |-> { [exists |-> TRUE, ageMinutes |-> 10, holderRisk |-> 50,
                totalSignatures |-> 1000] }]

CursorInit ==
  /\ ServerInit
  /\ inputs = CursorInputs
  /\ scored = NoScored
  /\ AsideInit

CursorNext ==
  \/ CronTick
  \/ \E s \in ScanIds : ScanStep(s)

CursorSpec == CursorInit /\ [][CursorNext]_vars

(***************************************************************************)
(* The Scorer on its own: the arguments of one call are drawn from sets    *)
(* that hold both sides of every threshold of calculateRiskScore and       *)
(* generateTags, and the call is made as performScan makes it.             *)
(***************************************************************************)
ScorerAges == {10, 30, 60, 1440, 10080, 10081}
ScorerHolderRisks == {0, 25, 50, 90}
ScorerSignatures == {3, 10, 1000, 1500}
\* mention lists of 1, 2, 3, 5 and 6 accounts from the head of ALPHA_HUNTERS
\* (topHunters among them), and of 1 and 5 accounts with no topHunter
ScorerMentions ==
  { SubSeq(ALPHA_HUNTERS, 1, n) : n \in {1, 2, 3, 5, 6} }
    \cup { SubSeq(ALPHA_HUNTERS, 5, 4 + n) : n \in {1, 5} }
\* posts whose likes plus retweets sum to 9, 10, 100, 101, 500 and 501
ScorerTweets ==
  { << [id |-> 1, like_count |-> l, retweet_count |-> 4,
        username |-> "degenspartan"] >> : l \in {5, 6, 96} }
    \cup { << [id |-> 2, like_count |-> l, retweet_count |-> 0,
              username |-> "degenspartan"],
             [id |-> 1, like_count |-> 1, retweet_count |-> 100,
              username |-> "SolBigBrain"] >> : l \in {0, 399, 400} }
ScorerDex ==
  { NoDex } \cup
  [present : {TRUE},
   liquidity : {500, 1000, 10000, 10001, 50000, 60000},
   volume24h : {500, 1000, 100000, 150000},
   priceChange24h : {-30, 0, 60},
   verified : BOOLEAN]
ScorerInfo ==
  [exists : {TRUE}, ageMinutes : ScorerAges, holderRisk : ScorerHolderRisks,
   totalSignatures : ScorerSignatures]

ScorerInit ==
  /\ ServerInit
  /\ inputs = ServeInputs
  /\ scored \in [applied : {FALSE}, info : ScorerInfo, dexData : ScorerDex,
                 mentions : ScorerMentions, tweetData : ScorerTweets,
                 riskScore : {0}, tags : {{}}]
  /\ AsideInit

\* const riskScore = calculateRiskScore(contractInfo, tweets, mentions,
\* dexData, tokenMeta); const tags = generateTags(contractInfo, riskScore,
\* ageMinutes, mentions, dexData)
Score ==
  /\ ~scored.applied
  /\ scored.info.exists
  /\ LET risk == calculateRiskScore(scored.info, scored.tweetData,
                                    scored.mentions, scored.dexData)
     IN  scored' = [scored EXCEPT
                      !.applied = TRUE,
                      !.riskScore = risk,
                      !.tags = generateTags(scored.info, risk,
                                            scored.info.ageMinutes,
                                            scored.mentions, scored.dexData)]
  /\ UNCHANGED <<server, inputs, apart, built, parsed, limiter>>

ScorerSpec == ScorerInit /\ [][Score]_vars

(***************************************************************************)
(* The scoring path of performScan on its own: the values awaited for one  *)
(* address are drawn once, and the statements from calculateRiskScore to   *)
(* contracts.push are run on them twice.                                   *)
(***************************************************************************)
\* number of times the scoring path is run on the same values
Reruns == 2

\* the ends of the range 0..n-1 of Math.floor(Math.random() * n)
RandomFloor(n) == {0, n - 1}

\* the Contract pushed for one address with the fields verified, marketCap
\* and holders; marketCap is dexData.marketCap (0 when the pair has no fdv),
\* holder is tokenMeta.holder (0 for null or undefined), draws the values of
\* the two Math.floor(Math.random() * n) should they be evaluated
ScoredContract(address, info, dexData, marketCap, holder, mentions, tweetData, draws) ==
  MakeContract(address, info, dexData, mentions, tweetData) @@
  [verified |-> dexData.present /\ dexData.verified,
   marketCap |-> IF dexData.present /\ marketCap # 0 THEN marketCap
                 ELSE draws.marketCap + 5000,
   holders |-> IF holder # 0 THEN holder ELSE draws.holders + 100]

BuiltInfo ==
  { [exists |-> TRUE, ageMinutes |-> 10, holderRisk |-> 50,
     totalSignatures |-> 1000],
    [exists |-> TRUE, ageMinutes |-> 2000, holderRisk |-> 10,
     totalSignatures |-> 1000] }
\* no pair, and pairs whose liquidity / 1000 is below 10, has a fraction
\* below and above one half, and is above 100
BuiltDex ==
  { NoDex } \cup
  [present : {TRUE}, liquidity : {0, 9400, 10500, 60000, 100499, 250000},
   volume24h : {150000}, priceChange24h : {0}, verified : BOOLEAN]
BuiltMentions == { SubSeq(ALPHA_HUNTERS, 1, n) : n \in {1, 3, 8} }
\* posts whose likes sum to 0, 8, 600 and 1500
BuiltTweets ==
  { << [id |-> 1, like_count |-> l, retweet_count |-> 0,
        username |-> "degenspartan"] >> : l \in {0, 8, 1500} }
    \cup { << [id |-> 2, like_count |-> 300, retweet_count |-> 0,
              username |-> "degenspartan"],
             [id |-> 1, like_count |-> 300, retweet_count |-> 0,
              username |-> "degenspartan"] >> }

BuiltInit ==
  /\ ServerInit
  /\ inputs = ServeInputs
  /\ scored = NoScored
  /\ ApartInit
  /\ parsed = NoParsed
  /\ limiter = NoLimiter
  /\ built \in [info : BuiltInfo, dexData : BuiltDex,
                marketCap : {0, 750000}, holder : {0, 1200},
                mentions : BuiltMentions, tweetData : BuiltTweets,
                runs : {<<>>}]

\* the statements from const riskScore = ... to contracts.push({...})
BuildContract ==
  /\ built.info.exists
  /\ Len(built.runs) < Reruns
  /\ \E m \in RandomFloor(1000000), h \in RandomFloor(50000) :
       built' = [built EXCEPT !.runs =
                   Append(@, ScoredContract("A1", built.info, built.dexData,
                                            built.marketCap, built.holder,
                                            built.mentions, built.tweetData,
                                            [marketCap |-> m, holders |-> h]))]
  /\ UNCHANGED <<server, inputs, apart, scored, parsed, limiter>>

BuiltSpec == BuiltInit /\ [][BuildContract]_vars

(***************************************************************************)
(* The request limiter of the client (src/src/App.tsx): enforceRateLimit   *)
(* called by concurrent callers.  The client is one JavaScript thread: a   *)
(* caller runs from its call, or from the end of a setTimeout, to its next *)
(* await or to its return.                                                 *)
(***************************************************************************)
MAX_REQUESTS_PER_MINUTE == 10
REQUESTS_WINDOW_MS == 60000
MIN_REQUEST_INTERVAL == 1000

\* callers of enforceRateLimit that may be active at once
MaxCallers == 2
\* steps of the clock in which new calls may arrive, and calls admitted in
\* one behaviour
MaxTicks == 6
MaxAdmitted == 12

CallerIds == 1..MaxCallers
\* the step of the clock and its first value (Date.now() is far above
\* lastRequestTime = 0 at the first call)
TickMs == MIN_REQUEST_INTERVAL \div 2
StartClock == REQUESTS_WINDOW_MS

IdleCaller == [pc |-> "idle", wake |-> 0]

RECURSIVE MinOf(_)
MinOf(ts) == IF Len(ts) = 1 THEN ts[1] ELSE Min(ts[1], MinOf(Tail(ts)))

\* requestHistory.push(Date.now()); lastRequestTime = Date.now(); the caller
\* returns and its request goes out
Admit(l, c) ==
  [l EXCEPT !.requestHistory = Append(@, l.clock),
            !.lastRequestTime = l.clock,
            !.admitted = Append(@, l.clock),
            !.callers[c] = IdleCaller]

\* enforceRateLimit from its first statement to its first await or its return
Enter(l, c) ==
  LET nowMs == l.clock
      history == SelectSeq(l.requestHistory,
                           LAMBDA time : nowMs - time < REQUESTS_WINDOW_MS)
      k == [l EXCEPT !.requestHistory = history]
      timeSinceLastRequest == nowMs - l.lastRequestTime
  IN  IF Len(history) >= MAX_REQUESTS_PER_MINUTE
      THEN [k EXCEPT !.callers[c] =
              [pc |-> "window",
               wake |-> nowMs + REQUESTS_WINDOW_MS - (nowMs - MinOf(history))]]
      ELSE IF timeSinceLastRequest < MIN_REQUEST_INTERVAL
      THEN [k EXCEPT !.callers[c] =
              [pc |-> "interval",
               wake |-> nowMs + MIN_REQUEST_INTERVAL - timeSinceLastRequest]]
      ELSE Admit(k, c)

LimiterInit ==
  /\ ServerInit
  /\ inputs = ServeInputs
  /\ scored = NoScored
  /\ ApartInit
  /\ built = NoBuilt
  /\ parsed = NoParsed
  /\ limiter = [on |-> TRUE, requestHistory |-> <<>>, lastRequestTime |-> 0,
                clock |-> StartClock,
                callers |-> [c \in CallerIds |-> IdleCaller],
                admitted |-> <<>>]

\* a setTimeout of some caller has run out
TimerDue == \E c \in CallerIds : /\ limiter.callers[c].pc # "idle"
                                 /\ limiter.callers[c].wake <= limiter.clock

\* a caller calls enforceRateLimit
Call(c) ==
  /\ limiter.on
  /\ limiter.callers[c].pc = "idle"
  /\ Len(limiter.admitted) < MaxAdmitted
  /\ limiter' = Enter(limiter, c)
  /\ UNCHANGED <<server, inputs, apart, scored, built, parsed>>

\* the wait for the window is over: return enforceRateLimit()
WakeWindow(c) ==
  /\ limiter.on
  /\ limiter.callers[c].pc = "window"
  /\ limiter.callers[c].wake <= limiter.clock
  /\ limiter' = Enter(limiter, c)
  /\ UNCHANGED <<server, inputs, apart, scored, built, parsed>>

\* the wait for the minimum interval is over
WakeInterval(c) ==
  /\ limiter.on
  /\ limiter.callers[c].pc = "interval"
  /\ limiter.callers[c].wake <= limiter.clock
  /\ limiter' = Admit(limiter, c)
  /\ UNCHANGED <<server, inputs, apart, scored, built, parsed>>

\* time passes while calls may arrive; a timer that has run out fires first
Tick ==
  /\ limiter.on
  /\ ~TimerDue
  /\ limiter.clock < StartClock + MaxTicks * TickMs
  /\ limiter' = [limiter EXCEPT !.clock = @ + TickMs]
  /\ UNCHANGED <<server, inputs, apart, scored, built, parsed>>

\* no call arrives until the next timer runs out
Sleep ==
  /\ limiter.on
  /\ ~TimerDue
  /\ \E c \in CallerIds :
       /\ limiter.callers[c].pc # "idle"
       /\ \A d \in CallerIds : limiter.callers[d].pc # "idle" =>
            limiter.callers[c].wake <= limiter.callers[d].wake
       /\ limiter' = [limiter EXCEPT !.clock = limiter.callers[c].wake]
  /\ UNCHANGED <<server, inputs, apart, scored, built, parsed>>

LimiterNext ==
  \/ \E c \in CallerIds : Call(c)
  \/ \E c \in CallerIds : WakeWindow(c)
  \/ \E c \in CallerIds : WakeInterval(c)
  \/ Tick
  \/ Sleep

LimiterSpec == LimiterInit /\ [][LimiterNext]_vars

(***************************************************************************)
(* The two text functions of the Source Reader on their own: the keyword   *)
(* filter of fetchAlphaHunterTweets and extractSolanaAddresses, applied to *)
(* one post text.  A text is the sequence of its characters.               *)
(***************************************************************************)
\* the base-58 alphabet of bs58, in the order of the digit values
Base58 ==
  <<"1", "2", "3", "4", "5", "6", "7", "8", "9", "A", "B", "C", "D", "E",
    "F", "G", "H", "J", "K", "L", "M", "N", "P", "Q", "R", "S", "T", "U",
    "V", "W", "X", "Y", "Z", "a", "b", "c", "d", "e", "f", "g", "h", "i",
    "j", "k", "m", "n", "o", "p", "q", "r", "s", "t", "u", "v", "w", "x",
    "y", "z">>
Base58Chars == SeqToSet(Base58)
\* the characters of \w that the texts use
WordChars == Base58Chars \cup {"0", "O", "I", "l", "_"}

UpperCase ==
  <<"A", "B", "C", "D", "E", "F", "G", "H", "I", "J", "K", "L", "M", "N",
    "O", "P", "Q", "R", "S", "T", "U", "V", "W", "X", "Y", "Z">>
LowerCase ==
  <<"a", "b", "c", "d", "e", "f", "g", "h", "i", "j", "k", "l", "m", "n",
    "o", "p", "q", "r", "s", "t", "u", "v", "w", "x", "y", "z">>

\* String.prototype.toLowerCase
toLowerCase(text) ==
  [i \in 1..Len(text) |->
     IF \E k \in 1..Len(UpperCase) : UpperCase[k] = text[i]
     THEN LowerCase[CHOOSE k \in 1..Len(UpperCase) : UpperCase[k] = text[i]]
     ELSE text[i]]

\* String.prototype.includes
includes(text, part) ==
  \E i \in 0..(Len(text) - Len(part)) : SubSeq(text, i + 1, i + Len(part)) = part

cryptoKeywords ==
  { <<"s", "o", "l", "a", "n", "a">>,
    <<"s", "o", "l">>,
    <<"t", "o", "k", "e", "n">>,
    <<"c", "o", "n", "t", "r", "a", "c", "t">>,
    <<"m", "i", "n", "t">>,
    <<"l", "i", "q", "u", "i", "d", "i", "t", "y">>,
    <<"d", "e", "x">>,
    <<"t", "r", "a", "d", "i", "n", "g">>,
    <<"p", "u", "m", "p">>,
    <<"m", "o", "o", "n">>,
    <<"g", "e", "m">>,
    <<"a", "l", "p", "h", "a">>,
    <<"a", "p", "e">>,
    <<"l", "a", "u", "n", "c", "h">>,
    <<"n", "e", "w">>,
    <<"f", "r", "e", "s", "h">>,
    <<"d", "e", "p", "l", "o", "y", "e", "d">>,
    <<"$">>,
    <<"C", "A", ":">> }

\* the predicate of tweets.filter(...): the text is not empty and its lower
\* case form includes one of the cryptoKeywords as they are written
PassesFilter(text) ==
  /\ text # <<>>
  /\ LET lower == toLowerCase(text)
     IN  \E keyword \in cryptoKeywords : includes(lower, keyword)

\* the places where a run of \w characters starts, and the end of the run
\* that starts at i
RunStarts(text) ==
  { i \in 1..Len(text) : /\ text[i] \in WordChars
                         /\ (i = 1 \/ text[i - 1] \notin WordChars) }
RunEnd(text, i) ==
  CHOOSE j \in i..Len(text) :
    /\ \A k \in i..j : text[k] \in WordChars
    /\ (j = Len(text) \/ text[j + 1] \notin WordChars)

\* the maximal runs of \w characters of the text, in text order
RECURSIVE RunsFrom(_, _)
RunsFrom(text, starts) ==
  IF starts = {} THEN <<>>
  ELSE LET i == CHOOSE k \in starts : \A m \in starts : k <= m
       IN  <<SubSeq(text, i, RunEnd(text, i))>>
             \o RunsFrom(text, starts \ {i})
WordRuns(text) == RunsFrom(text, RunStarts(text))

\* text.match(/\b[1-9A-HJ-NP-Za-km-z]{32,44}\b/g) || []: between two word
\* boundaries lies a whole run, so the matches are the runs of 32 to 44
\* characters that are all base-58
RegexMatches(text) ==
  SelectSeq(WordRuns(text),
            LAMBDA w : /\ Len(w) >= 32 /\ Len(w) <= 44
                       /\ \A i \in 1..Len(w) : w[i] \in Base58Chars)

DigitOf(ch) == (CHOOSE i \in 1..Len(Base58) : Base58[i] = ch) - 1

RECURSIVE LeadingOnes(_)
LeadingOnes(w) ==
  IF w # <<>> /\ Head(w) = "1" THEN 1 + LeadingOnes(Tail(w)) ELSE 0

\* bytes * 58 + carry on a little-endian byte string
RECURSIVE MulAdd(_, _)
MulAdd(bytes, carry) ==
  IF bytes = <<>>
  THEN IF carry = 0 THEN <<>> ELSE <<carry % 256>> \o MulAdd(<<>>, carry \div 256)
  ELSE LET v == Head(bytes) * 58 + carry
       IN  <<v % 256>> \o MulAdd(Tail(bytes), v \div 256)

\* the bytes of the number the digits spell, little-endian, no leading zero
RECURSIVE NumberBytes(_, _)
NumberBytes(w, bytes) ==
  IF w = <<>> THEN bytes
  ELSE NumberBytes(Tail(w), MulAdd(bytes, DigitOf(Head(w))))

\* bs58.decode(addr).length: one zero byte for every leading "1", then the
\* bytes of the number
DecodedLength(w) ==
  LET zeroes == LeadingOnes(w)
  IN  zeroes + Len(NumberBytes(SubSeq(w, zeroes + 1, Len(w)), <<>>))

\* new PublicKey(addr) does not throw: the string decodes to 32 bytes
IsPublicKey(w) == DecodedLength(w) = 32

\* addr.includes('111111111111111111111111111111')
HasSystemRun(addr) == includes(addr, [i \in 1..30 |-> "1"])

extractSolanaAddresses(text) ==
  SelectSeq(RegexMatches(text),
            LAMBDA addr : /\ IsPublicKey(addr)
                          /\ ~(Len(addr) < 32 \/ Len(addr) > 44)
                          /\ ~HasSystemRun(addr))

\* words a post may hold: two token mints, the system program, a native
\* program, a mint that ends in a keyword, keys that decode to 23 and 33
\* bytes, a run with a character outside base-58, runs of 31 and 45
UsdcMint ==
  <<"E", "P", "j", "F", "W", "d", "d", "5", "A", "u", "f", "q", "S", "S",
    "q", "e", "M", "2", "q", "N", "1", "x", "z", "y", "b", "a", "p", "C",
    "8", "G", "4", "w", "E", "G", "G", "k", "Z", "w", "y", "T", "D", "t",
    "1", "v">>
WrappedSolMint ==
  <<"S", "o", "1", "1", "1", "1", "1", "1", "1", "1", "1", "1", "1", "1",
    "1", "1", "1", "1", "1", "1", "1", "1", "1", "1", "1", "1", "1", "1",
    "1", "1", "1", "1", "1", "1", "1", "1", "1", "1", "1", "1", "1", "1",
    "2">>
SystemProgram ==
  <<"1", "1", "1", "1", "1", "1", "1", "1", "1", "1", "1", "1", "1", "1",
    "1", "1", "1", "1", "1", "1", "1", "1", "1", "1", "1", "1", "1", "1",
    "1", "1", "1", "1">>
ComputeBudgetProgram ==
  <<"C", "o", "m", "p", "u", "t", "e", "B", "u", "d", "g", "e", "t", "1",
    "1", "1", "1", "1", "1", "1", "1", "1", "1", "1", "1", "1", "1", "1",
    "1", "1", "1", "1", "1", "1", "1", "1", "1", "1", "1", "1", "1", "1",
    "1">>
PumpMint ==
  <<"E", "P", "j", "F", "W", "d", "d", "5", "A", "u", "f", "q", "S", "S",
    "q", "e", "M", "2", "q", "N", "1", "x", "z", "y", "b", "a", "p", "C",
    "8", "G", "4", "w", "E", "G", "G", "k", "Z", "w", "y", "T", "p", "u",
    "m", "p">>
ShortKey ==
  <<"2", "2", "2", "2", "2", "2", "2", "2", "2", "2", "2", "2", "2", "2",
    "2", "2", "2", "2", "2", "2", "2", "2", "2", "2", "2", "2", "2", "2",
    "2", "2", "2", "2">>
LongKey ==
  <<"z", "z", "z", "z", "z", "z", "z", "z", "z", "z", "z", "z", "z", "z",
    "z", "z", "z", "z", "z", "z", "z", "z", "z", "z", "z", "z", "z", "z",
    "z", "z", "z", "z", "z", "z", "z", "z", "z", "z", "z", "z", "z", "z",
    "z", "z">>
ZeroInKey ==
  <<"E", "P", "j", "F", "W", "d", "d", "5", "A", "u", "0", "q", "S", "S",
    "q", "e", "M", "2", "q", "N", "1", "x", "z", "y", "b", "a", "p", "C",
    "8", "G", "4", "w", "E", "G", "G", "k", "Z", "w", "y", "T", "D", "t",
    "1", "v">>
Run31 ==
  <<"E", "P", "j", "F", "W", "d", "d", "5", "A", "u", "f", "q", "S", "S",
    "q", "e", "M", "2", "q", "N", "1", "x", "z", "y", "b", "a", "p", "C",
    "8", "G", "4">>
Run45 ==
  <<"E", "P", "j", "F", "W", "d", "d", "5", "A", "u", "f", "q", "S", "S",
    "q", "e", "M", "2", "q", "N", "1", "x", "z", "y", "b", "a", "p", "C",
    "8", "G", "4", "w", "E", "G", "G", "k", "Z", "w", "y", "T", "D", "t",
    "1", "v", "A">>
TextWords == { UsdcMint,
              WrappedSolMint,
              SystemProgram,
              ComputeBudgetProgram,
              PumpMint,
              ShortKey,
              LongKey,
              ZeroInKey,
              Run31,
              Run45 }
TextPrefixes ==
  { <<>>,
    <<"C", "A", ":", " ">>,
    <<"C", "a", ":", " ">>,
    <<"n", "e", "w", " ", "g", "e", "m", " ">> }
TextSuffixes ==
  { <<>>, <<" ", "/", " ">> \o UsdcMint \o <<".">>,
    <<" ", "$">> }

TextInit ==
  /\ ServerInit
  /\ inputs = ServeInputs
  /\ scored = NoScored
  /\ ApartInit
  /\ built = NoBuilt
  /\ limiter = NoLimiter
  /\ parsed \in { [NoParsed EXCEPT !.given = TRUE, !.text = p \o w \o q] :
                    p \in TextPrefixes, w \in TextWords, q \in TextSuffixes }

\* the filter of fetchAlphaHunterTweets looks at the post
FilterTweet ==
  /\ parsed.given
  /\ ~parsed.filterDone
  /\ parsed' = [parsed EXCEPT !.filterDone = TRUE,
                              !.relevant = PassesFilter(parsed.text)]
  /\ UNCHANGED <<server, inputs, apart, scored, built, limiter>>

\* const addresses = extractSolanaAddresses(tweet.text)
ExtractAddresses ==
  /\ parsed.given
  /\ ~parsed.extractDone
  /\ parsed' = [parsed EXCEPT
                  !.extractDone = TRUE,
                  !.addresses = extractSolanaAddresses(parsed.text)]
  /\ UNCHANGED <<server, inputs, apart, scored, built, limiter>>

TextNext == FilterTweet \/ ExtractAddresses

TextSpec == TextInit /\ [][TextNext]_vars


(***************************************************************************)
(* getContractInfo on its own: the on-chain state of one address is drawn  *)
(* once, and the address is inspected and scored as the address loop of    *)
(* performScan does.                                                       *)
(***************************************************************************)
\* the largest number of token accounts getTokenLargestAccounts returns
MaxHolders == 6

\* the raw balances a token account may hold
HolderAmounts == {0, 1, 5, 10}

\* the lists of n balances, largest first (the order of the RPC node)
RECURSIVE Descending(_)
Descending(n) ==
  IF n = 0 THEN { <<>> }
  ELSE UNION { { Append(l, a) :
                   a \in { b \in HolderAmounts : l = <<>> \/ b <= l[Len(l)] } } :
               l \in Descending(n - 1) }

RECURSIVE SumAmounts(_)
SumAmounts(accounts) ==
  IF accounts = <<>> THEN 0 ELSE Head(accounts) + SumAmounts(Tail(accounts))

\* a mint and its token accounts: the balances never exceed the supply
HolderStates ==
  { h \in [largestAccounts : UNION { Descending(n) : n \in 0..MaxHolders },
           amount : {0, 25, 50}] : SumAmounts(h.largestAccounts) <= h.amount }

\* supply: TokenAmount | null
NoSupply == [present |-> FALSE, amount |-> 0]

\* the comparisons use >= in the place of >
HolderRiskAtThreshold(largestAccounts, supply) ==
  IF ~supply.present \/ largestAccounts = <<>> THEN 50
  ELSE LET top5Holdings ==
             SumAmounts(SubSeq(largestAccounts, 1, Min(5, Len(largestAccounts))))
       IN  IF supply.amount = 0 THEN (IF top5Holdings = 0 THEN 10 ELSE 90)
           ELSE IF top5Holdings * 100 >= 80 * supply.amount THEN 90
           ELSE IF top5Holdings * 100 >= 60 * supply.amount THEN 70
           ELSE IF top5Holdings * 100 >= 40 * supply.amount THEN 50
           ELSE IF top5Holdings * 100 >= 20 * supply.amount THEN 30
           ELSE 10

\* concentrationRatio = (top5Holdings / totalSupply) * 100 is compared with
\* each threshold t as top5Holdings * 100 > t * totalSupply; a totalSupply of
\* 0 makes the ratio NaN (no comparison holds) or Infinity (every one holds)
calculateHolderRisk(largestAccounts, supply) ==
  IF ~supply.present \/ largestAccounts = <<>> THEN 50
  ELSE LET top5Holdings ==
             SumAmounts(SubSeq(largestAccounts, 1, Min(5, Len(largestAccounts))))
       IN  IF supply.amount = 0 THEN (IF top5Holdings = 0 THEN 10 ELSE 90)
           ELSE IF top5Holdings * 100 > 80 * supply.amount THEN 90
           ELSE IF top5Holdings * 100 > 60 * supply.amount THEN 70
           ELSE IF top5Holdings * 100 > 40 * supply.amount THEN 50
           ELSE IF top5Holdings * 100 > 20 * supply.amount THEN 30
           ELSE 10

\* every signature of the address returned, whatever the limit
SignaturesUnlimited(onChain, limit) == onChain

\* connection.getSignaturesForAddress(pubkey, { limit }): the number of
\* signatures returned for an address that has onChain of them
getSignaturesForAddress(onChain, limit) == Min(onChain, limit)

\* the RPC calls of getContractInfo, one of which may throw
RpcCalls == {"getAccountInfo", "getTokenSupply", "getTokenLargestAccounts",
             "getSignaturesForAddress"}

\* c: the on-chain state of the address and the call that throws, if any
getContractInfo(c) ==
  IF c.fails = "getAccountInfo" \/ ~c.account
     \/ c.fails = "getSignaturesForAddress"
  THEN NoInfo
  ELSE LET supply == IF c.fails = "getTokenSupply" THEN NoSupply
                     ELSE [present |-> TRUE, amount |-> c.supply]
           largestAccounts ==
             IF c.fails \in {"getTokenSupply", "getTokenLargestAccounts"}
             THEN <<>> ELSE c.largestAccounts
           signatures == getSignaturesForAddress(c.signatures, 1000)
       IN  [exists |-> TRUE,
            ageMinutes |-> IF signatures > 0 THEN c.age ELSE 0,
            holderRisk |-> calculateHolderRisk(largestAccounts, supply),
            totalSignatures |-> signatures]

\* the numbers of signatures an address may have on chain
ChainSignatures == {0, 5, 1000, 1500}

InfoMentions == <<"degenspartan", "SolBigBrain">>
InfoTweets == << [id |-> 1, like_count |-> 30, retweet_count |-> 0,
                  username |-> "degenspartan"] >>

InfoInit ==
  /\ ServerInit
  /\ inputs = ServeInputs
  /\ scored = NoScored
  /\ built = NoBuilt
  /\ parsed = NoParsed
  /\ limiter = NoLimiter
  /\ fetcher = NoFetcher
  /\ tracker = NoTracker
  /\ \E h \in HolderStates, f \in RpcCalls \cup {"none"}, a \in BOOLEAN,
        n \in ChainSignatures :
       chain = [NoChain EXCEPT !.account = a, !.fails = f,
                               !.supply = h.amount,
                               !.largestAccounts = h.largestAccounts,
                               !.signatures = n, !.age = 100]

\* const contractInfo = await getContractInfo(address); if (!contractInfo)
\* continue; ... const riskScore = calculateRiskScore(...)
InspectAddress ==
  /\ ~chain.done
  /\ LET contractInfo == getContractInfo(chain)
     IN  chain' = [chain EXCEPT
                     !.done = TRUE,
                     !.info = contractInfo,
                     !.riskScore =
                       IF contractInfo.exists
                       THEN calculateRiskScore(contractInfo, InfoTweets,
                                               InfoMentions, NoDex)
                       ELSE 0]
  /\ UNCHANGED <<server, inputs, scored, built, parsed, limiter, fetcher,
                 tracker>>

InfoSpec == InfoInit /\ [][InspectAddress]_vars


(***************************************************************************)
(* fetchWithBackoff of the client on its own: one call, whose arguments    *)
(* are drawn once; every invocation of the request settles with a response *)
(* status or without a response.                                           *)
(***************************************************************************)
MAX_RETRIES == 3
MAX_BACKOFF_DELAY == 30000

\* the retries arguments followed, and the baseDelay arguments (2000 is the
\* default; with 20000 the first delays pass MAX_BACKOFF_DELAY)
RetryCounts == 1..MAX_RETRIES
BaseDelays == {2000, 20000}

\* error.response?.status of a settled request: 200 stands for a fulfilled
\* promise, 0 for an error without a response (network error, timeout)
Statuses == {200, 0, 404, 429, 500, 503}

\* the waits of enforceRateLimit before it admits the request
LimiterWaits == {0, MIN_REQUEST_INTERVAL, REQUESTS_WINDOW_MS}

\* the last pass of the loop retries as well
RetryOnLastPass(status, i, retries) == status = 429 \/ status >= 500

shouldRetry(status, i, retries) ==
  LET isRateLimit == status = 429
      isServerError == status >= 500
  IN  (isRateLimit \/ isServerError) /\ i < retries - 1

\* baseDelay * Math.pow(BACKOFF_MULTIPLIER, i), three times that for a 429,
\* capped (BACKOFF_MULTIPLIER is 1.5 = 3/2; the base delays followed are
\* multiples of 2^i)
BackoffDelay(status, i, baseDelay) ==
  LET isRateLimit == status = 429
      delay == (baseDelay * 3^i) \div 2^i
  IN  IF isRateLimit THEN Min(delay * 3, MAX_BACKOFF_DELAY)
      ELSE Min(delay, MAX_BACKOFF_DELAY)

NoError == [attempt |-> 0, status |-> 0, message |-> ""]

FetcherInit ==
  /\ ServerInit
  /\ inputs = ServeInputs
  /\ scored = NoScored
  /\ built = NoBuilt
  /\ parsed = NoParsed
  /\ limiter = NoLimiter
  /\ chain = NoChain
  /\ tracker = NoTracker
  /\ \E r \in RetryCounts, b \in BaseDelays :
       fetcher = [on |-> TRUE, retries |-> r, baseDelay |-> b, i |-> 0,
                  pc |-> "attempt", attempts |-> <<>>, waits |-> <<>>,
                  delays |-> <<>>, thrown |-> NoError]

\* one pass of the loop up to its next await: enforceRateLimit admits the
\* request, fn() settles, and the catch block decides
Attempt ==
  /\ fetcher.on
  /\ fetcher.pc = "attempt"
  /\ \E w \in LimiterWaits, status \in Statuses :
       LET f == [fetcher EXCEPT !.attempts = Append(@, status),
                                !.waits = Append(@, w)]
       IN  fetcher' =
             IF status = 200 THEN [f EXCEPT !.pc = "returned"]
             ELSE IF shouldRetry(status, fetcher.i, fetcher.retries)
             THEN [f EXCEPT !.pc = "backoff",
                            !.delays = Append(@, BackoffDelay(status, fetcher.i,
                                                              fetcher.baseDelay))]
             ELSE [f EXCEPT !.pc = "thrown",
                            !.thrown = [attempt |-> Len(f.attempts),
                                        status |-> status,
                                        message |-> "response error"]]
  /\ UNCHANGED <<server, inputs, scored, built, parsed, limiter, chain,
                 tracker>>

\* the setTimeout of the backoff fires: continue, i++, and the loop test
BackoffOver ==
  /\ fetcher.on
  /\ fetcher.pc = "backoff"
  /\ fetcher' =
       IF fetcher.i + 1 < fetcher.retries
       THEN [fetcher EXCEPT !.i = @ + 1, !.pc = "attempt"]
       ELSE [fetcher EXCEPT !.i = @ + 1, !.pc = "thrown",
                            !.thrown = [attempt |-> 0, status |-> 0,
                                        message |-> "Max retries reached"]]
  /\ UNCHANGED <<server, inputs, scored, built, parsed, limiter, chain,
                 tracker>>

FetcherNext == Attempt \/ BackoffOver

\* every request settles (axios timeout) and every timer fires
FetcherSpec == FetcherInit /\ [][FetcherNext]_vars /\ WF_vars(FetcherNext)


(***************************************************************************)
(* Transaction tracking on its own: trackTransaction of the client and     *)
(* trackOKXTransaction of the server, called with their default arguments  *)
(* for one order.                                                          *)
(***************************************************************************)
CONFIRMATION_TIMEOUT == 60000
POLLING_INTERVAL == 5000

\* what one poll of the orders endpoint may give: an answer without orders,
\* txStatus "1" (pending), "2" (success) or "3" (failed), or a rejected
\* request
PollAnswers == {"none", "1", "2", "3", "error"}

\* the time one poll may take, in milliseconds
PollDurations == {0, 2500}

TrackerInit ==
  /\ ServerInit
  /\ inputs = ServeInputs
  /\ scored = NoScored
  /\ built = NoBuilt
  /\ parsed = NoParsed
  /\ limiter = NoLimiter
  /\ chain = NoChain
  /\ fetcher = NoFetcher
  /\ \E side \in {"client", "server"} :
       tracker = [NoTracker EXCEPT !.on = TRUE, !.side = side, !.pc = "poll"]

\* the body of the while loop up to its closing await; answer and d are
\* what the poll gives and the time it takes
PollOrder(t, answer, d) ==
  LET polled == [t EXCEPT !.elapsed = @ + d, !.polls = @ + 1,
                          !.final = IF @ = "" /\ answer \in {"2", "3"}
                                    THEN answer ELSE @]
      changed == answer \in {"1", "2", "3"} /\ answer # t.lastStatus
      seen == IF changed THEN [polled EXCEPT !.lastStatus = answer]
              ELSE polled
  IN  IF changed /\ answer = "2"
      THEN [seen EXCEPT !.pc = "returned"]
      ELSE IF changed /\ answer = "3"
      THEN (IF t.side = "client"
            THEN [seen EXCEPT !.pc = "sleep"]
            ELSE [seen EXCEPT !.pc = "thrown",
                              !.message = "Transaction failed"])
      ELSE IF answer = "error" /\ t.side = "server"
      THEN [seen EXCEPT !.pc = "thrown", !.message = "OKX API Error"]
      ELSE [seen EXCEPT !.pc = "sleep"]

\* trackTransaction of the client: the throw for status "3" and the errors
\* of the request end in the catch block of the loop body, which logs them
Poll ==
  /\ tracker.on /\ tracker.side = "client"
  /\ tracker.pc = "poll"
  /\ \E answer \in PollAnswers, d \in PollDurations :
       tracker' = PollOrder(tracker, answer, d)
  /\ UNCHANGED <<server, inputs, scored, built, parsed, limiter, chain,
                 fetcher>>

\* trackOKXTransaction of the server: the catch block throws again
PollOKX ==
  /\ tracker.on /\ tracker.side = "server"
  /\ tracker.pc = "poll"
  /\ \E answer \in PollAnswers, d \in PollDurations :
       tracker' = PollOrder(tracker, answer, d)
  /\ UNCHANGED <<server, inputs, scored, built, parsed, limiter, chain,
                 fetcher>>

\* the setTimeout of intervalMs fires and the while condition is tested
IntervalOver ==
  /\ tracker.on
  /\ tracker.pc = "sleep"
  /\ LET t == tracker.elapsed + POLLING_INTERVAL
     IN  tracker' =
           IF t < CONFIRMATION_TIMEOUT
           THEN [tracker EXCEPT !.elapsed = t, !.pc = "poll"]
           ELSE [tracker EXCEPT !.elapsed = t, !.pc = "thrown",
                                !.message = "Transaction tracking timed out"]
  /\ UNCHANGED <<server, inputs, scored, built, parsed, limiter, chain,
                 fetcher>>

TrackerNext == Poll \/ PollOKX \/ IntervalOver

TrackerSpec == TrackerInit /\ [][TrackerNext]_vars


\* every awaited external call and every pacing delay eventually settles
FairSpec == Spec /\ \A s \in ScanIds : WF_vars(ScanStep(s))

TypeOK ==
  /\ scanInProgress \in BOOLEAN
  /\ nextScan \in 0..MaxScans
  /\ lastScanTime \in 0..MaxScans
  /\ \A s \in ScanIds :
       scans[s].pc \in {"none", "fetch", "hdelay", "info", "dex", "meta",
                        "adelay", "done"}

(***************************************************************************)
(* Properties                                                              *)
(***************************************************************************)
\* the performScan invocations between setting and clearing scanInProgress
ActiveScans == { s \in ScanIds : scans[s].pc \notin {"none", "done"} }

\* the cycle started last has ended / ended without an exception
CycleEnded == cycle.id # 0 /\ cycle.outcome # ""
CycleSucceeded == cycle.id # 0 /\ cycle.outcome = "ok"

EventIndexes(type) == { i \in 1..Len(events) : events[i].type = type }

\* the pair a reader of the Result Cache saw
Pair(list, time) == [cache |-> list, time |-> time]
InitialPair == Pair(<<>>, 0)

GET_SCAN == "GET /api/scan"
GET_STATUS == "GET /api/status"
POST_TRIGGER == "POST /api/scan/trigger"

\* C1: single-flight.  At most one performScan invocation is ever between
\* setting and clearing scanInProgress; while the flag is set no step starts
\* a cycle; and a performScan call that was skipped leaves the flag, every
\* invocation, the cache and its timestamp as they were.
C1_SingleFlight ==
  /\ [](Cardinality(ActiveScans) <= 1)
  /\ [][scanInProgress => /\ nextScan' = nextScan
                          /\ ActiveScans' \subseteq ActiveScans]_vars
  /\ [][lastStep'.res = "skipped" =>
          UNCHANGED <<contractsCache, lastScanTime, scanInProgress, scans,
                      nextScan, events>>]_vars

\* a cron tick arrived while a cycle was running and was skipped
C1_Witness ==
  /\ lastStep = Step("cron", "skipped")
  /\ scanInProgress
  /\ Cardinality(ActiveScans) = 1

C3_CacheAtomicity ==
  /\ (lastStep.op = GET_SCAN /\ lastStep.body.status = 200) =>
       Pair(lastStep.body.data, lastStep.body.lastUpdate)
         \in published \cup {InitialPair}
  /\ (lastStep.op = GET_STATUS /\ lastStep.body.status = 200) =>
       \E p \in published \cup {InitialPair} :
         /\ Len(p.cache) = lastStep.body.cachedContracts
         /\ p.time = lastStep.body.lastUpdate
  /\ \A c \in ClientIds :
       clients[c].state = "connected" =>
         Pair(clients[c].last, clients[c].lastUpdate)
           \in published \cup {InitialPair}

\* GET /api/scan was answered with a published list while a later cycle had
\* already built part of its own list
C3_Witness ==
  /\ lastStep.op = GET_SCAN
  /\ lastStep.body.scanInProgress
  /\ lastStep.body.data # <<>>
  /\ \E s \in ActiveScans : scans[s].contracts # <<>>

\* C4 (as claimed): when the cycle ended with an exception, a scan-error was
\* broadcast, no contracts-update was broadcast, and the cache and its
\* timestamp are those the cycle found.
C4_FailedCycleKeepsCache ==
  (cycle.outcome = "error" /\ ~scanInProgress) =>
     /\ EventIndexes("scan-error") # {}
     /\ EventIndexes("contracts-update") = {}
     /\ contractsCache = cycle.cacheBefore
     /\ lastScanTime = cycle.timeBefore

\* C5 (as claimed): when every timeline read of the cycle threw, the cache
\* still holds the contracts it held before the cycle.
C5_FallsBackToCache ==
  (CycleEnded /\ ~scanInProgress /\ cycle.failedFetches = NumHunters) =>
     contractsCache = cycle.cacheBefore

\* a POST /api/scan/trigger request is handled in this step: it is answered
\* at once, or its handler starts to wait for a scan
PostHandled ==
  \/ /\ lastStep' # lastStep
     /\ lastStep'.op = POST_TRIGGER
     /\ lastStep'.res = "answered"
  \/ \E p \in pending' \ pending : p.endpoint = POST_TRIGGER

\* C6: POST /api/scan/trigger answers 429 with success:false exactly when
\* scanInProgress is set at the request, and then starts nothing and changes
\* no state; when the flag is clear it starts exactly one cycle, and the
\* answer it gives after that cycle is not a 429.
C6_TriggerRejectsWhenBusy ==
  /\ [][PostHandled =>
          IF scanInProgress
          THEN /\ lastStep'.body.status = 429
               /\ lastStep'.body.success = FALSE
               /\ UNCHANGED <<contractsCache, lastScanTime, scanInProgress,
                              tweetIdCache, scans, nextScan, events, clients,
                              pending>>
          ELSE /\ lastStep'.body.status # 429
               /\ nextScan' = nextScan + 1
               /\ Cardinality(ActiveScans') = Cardinality(ActiveScans) + 1
               /\ scanInProgress']_vars
  /\ []((lastStep.op = POST_TRIGGER /\ lastStep.res = "answered after scan")
          => lastStep.body.status = 200)

\* a trigger was answered 429 while a cycle was running
C6_Witness ==
  /\ lastStep.op = POST_TRIGGER
  /\ lastStep.body.status = 429
  /\ scanInProgress

\* a GET /api/scan request is handled in this step
GetHandled ==
  \/ /\ lastStep' # lastStep
     /\ lastStep'.op = GET_SCAN
     /\ lastStep'.res = "answered"
  \/ \E p \in pending' \ pending : p.endpoint = GET_SCAN

\* C7: GET /api/scan starts a scan cycle if and only if the cache is empty
\* and no scan is running at the request; in every other case it changes
\* neither scanInProgress, contractsCache nor lastScanTime (nor any
\* invocation).
C7_GetStartsScanIffEmptyAndIdle ==
  [][GetHandled =>
       IF Len(contractsCache) = 0 /\ ~scanInProgress
       THEN /\ nextScan' = nextScan + 1
            /\ Cardinality(ActiveScans') = Cardinality(ActiveScans) + 1
            /\ scanInProgress'
       ELSE UNCHANGED <<contractsCache, lastScanTime, scanInProgress, scans,
                        nextScan>>]_vars

\* a GET /api/scan on the empty cache started the running cycle
C7_Witness ==
  /\ scanInProgress
  /\ \E p \in pending : p.endpoint = GET_SCAN /\ p.scan \in ActiveScans

\* C8 (as claimed): no GET /api/scan request waits for a scan cycle: its
\* handler never holds the response back until a performScan call returns.
C8_ReadsNeverWaitForScan ==
  \A p \in pending : p.endpoint # GET_SCAN

\* C9: contracts-update is broadcast exactly once by a cycle that ends
\* without an exception, after the cache was replaced and with the cache as
\* payload, and never by a running or failed cycle; every socket that has
\* connected was sent it directly exactly once.
C9_UpdateOncePerCycle ==
  /\ Cardinality(EventIndexes("contracts-update")) =
       (IF CycleSucceeded THEN 1 ELSE 0)
  /\ (CycleSucceeded /\ ~scanInProgress) =>
       \A i \in EventIndexes("contracts-update") :
         /\ events[i].contracts = contractsCache
         /\ events[i].lastScan = lastScanTime
         /\ \A c \in ClientIds :
              clients[c].state = "connected" =>
                clients[c].last = events[i].contracts
  /\ \A c \in ClientIds :
       clients[c].direct = (IF clients[c].state = "new" THEN 0 ELSE 1)

\* a cycle published a non-empty list to a connected socket
C9_Witness ==
  /\ CycleSucceeded
  /\ contractsCache # <<>>
  /\ \E c \in ClientIds : /\ clients[c].state = "connected"
                          /\ clients[c].last = contractsCache

\* C10: the broadcasts of one cycle are ordered.  The first is a scan-status
\* with inProgress = true; while the cycle runs every broadcast is such a
\* scan-status; once it has ended there is exactly one contracts-update or
\* scan-error, it precedes the last event, and the last event is the only
\* scan-status with inProgress = false, carries the cache timestamp and was
\* emitted with scanInProgress already cleared.
C10_EventOrder ==
  LET n == Len(events)
      closing == EventIndexes("contracts-update") \cup EventIndexes("scan-error")
  IN  /\ n > 0 => (events[1].type = "scan-status" /\ events[1].inProgress)
      /\ (cycle.id # 0 /\ ~CycleEnded) =>
           \A i \in 1..n : events[i].type = "scan-status" /\ events[i].inProgress
      /\ (CycleEnded /\ ~scanInProgress) =>
           /\ Cardinality(closing) = 1
           /\ \A i \in closing : i = n - 1
           /\ \A i \in 1..(n - 2) :
                events[i].type = "scan-status" /\ events[i].inProgress
           /\ events[n].type = "scan-status"
           /\ ~events[n].inProgress
           /\ events[n].lastScan = lastScanTime
           /\ ~events[n].flag

\* a cycle published and its five status events and one update are in order
C10_Witness ==
  /\ CycleSucceeded
  /\ ~scanInProgress
  /\ Len(events) >= 6
  /\ contractsCache # <<>>

(***************************************************************************)
(* Scorer properties (checked under ScorerSpec)                            *)
(***************************************************************************)
\* the adjustment of the first row of a group of the table whose condition
\* holds, 0 when none holds; a row is <<condition, adjustment>>
RECURSIVE FirstAdjustment(_)
FirstAdjustment(rows) ==
  IF rows = <<>> THEN 0
  ELSE IF Head(rows)[1] THEN Head(rows)[2]
       ELSE FirstAdjustment(Tail(rows))

\* ten times 50 plus the adjustments of the risk table for the arguments of
\* the call in scored
TableTenths ==
  LET age == scored.info.ageMinutes
      n == Len(scored.mentions)
      eng == SumEngagement(scored.tweetData)
      d == scored.dexData
      sig == scored.info.totalSignatures
      groups ==
        << << <<age < 30, 40>>, <<age < 60, 25>>, <<age < 1440, 10>>,
              <<age > 10080, -15>> >>,
           << <<n > 5, -25>>, <<n > 2, -15>>, <<n = 1, 20>> >>,
           << <<eng > 500, -20>>, <<eng > 100, -10>>, <<eng < 10, 15>> >>,
           << <<d.present /\ d.liquidity > 50000, -20>>,
              <<d.present /\ d.liquidity > 10000, -10>>,
              <<d.present /\ d.liquidity < 1000, 25>> >>,
           << <<~d.present, 20>> >>,
           << <<d.present /\ d.volume24h > 100000, -15>>,
              <<d.present /\ d.volume24h < 1000, 10>> >>,
           << <<d.present /\ d.verified, -15>> >>,
           << <<sig > 1000, -10>>, <<sig < 10, 15>> >> >>
      RECURSIVE Total(_)
      Total(gs) == IF gs = <<>> THEN 0
                   ELSE FirstAdjustment(Head(gs)) + Total(Tail(gs))
  IN  10 * (50 + Total(groups)) + 3 * scored.info.holderRisk

\* C11: calculateRiskScore is bounded.  Whatever the age, mentions,
\* engagement, market data (present or absent), holder risk and signature
\* count of the call, the result is an integer from 0 to 100; a sum above 100
\* gives 100 and a sum below 0 gives 0.
C11_RiskScoreBounded ==
  scored.applied =>
    /\ scored.riskScore \in 0..100
    /\ TableTenths > 1000 => scored.riskScore = 100
    /\ TableTenths < 0 => scored.riskScore = 0

\* a call whose sum is above 100 returned 100
C11_Witness ==
  /\ scored.applied
  /\ TableTenths > 1150
  /\ scored.riskScore = 100

\* C12: calculateRiskScore equals clamp(round(50 + the adjustments of the
\* table), 0, 100), each group of the table giving the adjustment of its
\* first condition that holds and nothing otherwise, holder risk x 0.3
\* added when present.
C12_RiskScoreIsTable ==
  scored.applied =>
    LET rounded == (2 * TableTenths + 10) \div 20
    IN  scored.riskScore =
          (IF rounded > 100 THEN 100 ELSE IF rounded < 0 THEN 0 ELSE rounded)

\* a call with a fractional sum strictly inside the range: 50 - 15 (over 7
\* days) - 15 (3 mentions) + 7.5 (holder risk 25) = 27.5 gives 28
C12_Witness ==
  /\ scored.applied
  /\ TableTenths = 275
  /\ scored.riskScore = 28

\* the call in scored is the scenario: 6 distinct sources, age 10 minutes,
\* liquidity 60,000, volume 150,000, verified, 1500 signatures
Scenario13 ==
  /\ scored.applied
  /\ Len(scored.mentions) = 6
  /\ scored.info.ageMinutes = 10
  /\ scored.dexData.present
  /\ scored.dexData.liquidity = 60000
  /\ scored.dexData.volume24h = 150000
  /\ scored.dexData.verified
  /\ scored.info.totalSignatures = 1500

\* C13 (as claimed): the scenario gets risk score 5 and the tags ULTRA_FRESH,
\* TRENDING, HIGH_VOLUME, GOOD_LIQUIDITY, VERIFIED and LOW_RISK.
C13_ScenarioScoreIsFive ==
  Scenario13 =>
    /\ scored.riskScore = 5
    /\ {"ULTRA_FRESH", "TRENDING", "HIGH_VOLUME", "GOOD_LIQUIDITY",
        "VERIFIED", "LOW_RISK"} \subseteq scored.tags

\* C13 (amended): the scenario, with a total engagement from 10 to 100, gets
\* risk score round(5 + 0.3 x holder risk), which is 5 only when no holder
\* risk is present; its tags include ULTRA_FRESH, TRENDING, HIGH_VOLUME,
\* GOOD_LIQUIDITY and VERIFIED, and LOW_RISK exactly when the score is below
\* 30.
C13_ScenarioScore ==
  (Scenario13 /\ SumEngagement(scored.tweetData) \in 10..100) =>
    /\ scored.riskScore = (2 * (50 + 3 * scored.info.holderRisk) + 10) \div 20
    /\ scored.info.holderRisk = 0 => scored.riskScore = 5
    /\ {"ULTRA_FRESH", "TRENDING", "HIGH_VOLUME", "GOOD_LIQUIDITY",
        "VERIFIED"} \subseteq scored.tags
    /\ "LOW_RISK" \in scored.tags <=> scored.riskScore < 30

\* the scenario with the holder risk of an address without holder data (50):
\* the score is 20
C13_Witness ==
  /\ Scenario13
  /\ SumEngagement(scored.tweetData) \in 10..100
  /\ scored.info.holderRisk = 50
  /\ scored.riskScore = 20
  /\ "LOW_RISK" \in scored.tags

\* the tags of the spec and the rule of each, for the call in scored
AllTags == {"LOW_RISK", "HIGH_RISK", "ULTRA_FRESH", "FRESH", "NEW",
            "TRENDING", "POPULAR", "ALPHA_HUNTER", "HIGH_VOLUME",
            "GOOD_LIQUIDITY", "PUMPING", "DUMPING", "VERIFIED", "NO_DEX_DATA"}

TagRule(t) ==
  LET score == scored.riskScore
      age == scored.info.ageMinutes
      n == Len(scored.mentions)
      d == scored.dexData
  IN  CASE t = "LOW_RISK" -> score < 30
        [] t = "HIGH_RISK" -> score > 70
        [] t = "ULTRA_FRESH" -> age < 30
        [] t = "FRESH" -> age >= 30 /\ age < 60
        [] t = "NEW" -> age >= 60 /\ age < 1440
        [] t = "TRENDING" -> n > 4
        [] t = "POPULAR" -> n <= 4 /\ n > 2
        [] t = "ALPHA_HUNTER" ->
             \E i \in 1..n : scored.mentions[i] \in
               {"degenspartan", "SolBigBrain", "0xSisyphus", "thedefiedge"}
        [] t = "HIGH_VOLUME" -> d.present /\ d.volume24h > 100000
        [] t = "GOOD_LIQUIDITY" -> d.present /\ d.liquidity > 50000
        [] t = "PUMPING" -> d.present /\ d.priceChange24h > 50
        [] t = "DUMPING" -> d.present /\ d.priceChange24h < -20
        [] t = "VERIFIED" -> d.present /\ d.verified
        [] t = "NO_DEX_DATA" -> ~d.present

\* C14: generateTags returns exactly the tags whose rule holds: LOW_RISK
\* below 30 and HIGH_RISK above 70; ULTRA_FRESH under 30 minutes, else FRESH
\* under 60, else NEW under 24 hours; TRENDING above 4 mentions, else POPULAR
\* above 2; ALPHA_HUNTER when a mentioning account is a top hunter; with
\* market data HIGH_VOLUME, GOOD_LIQUIDITY, PUMPING, DUMPING and VERIFIED by
\* their thresholds, without it NO_DEX_DATA.
C14_TagsAreRules ==
  scored.applied => scored.tags = { t \in AllTags : TagRule(t) }

\* a call for a 30 minute old address with 3 mentions and falling price:
\* FRESH, POPULAR and DUMPING without ULTRA_FRESH, NEW, TRENDING or PUMPING
C14_Witness ==
  /\ scored.applied
  /\ scored.info.ageMinutes = 30
  /\ Len(scored.mentions) = 3
  /\ scored.dexData.priceChange24h = -30
  /\ {"FRESH", "POPULAR", "DUMPING", "ALPHA_HUNTER"} \subseteq scored.tags
  /\ scored.tags \cap {"ULTRA_FRESH", "NEW", "TRENDING", "PUMPING",
                        "NO_DEX_DATA"} = {}

(***************************************************************************)
(* Properties of one cycle (checked under ScanSpec)                        *)
(***************************************************************************)
\* the addresses of the published list
PublishedAddresses ==
  { contractsCache[i].address : i \in 1..Len(contractsCache) }

\* the entry of the published list for an address
PublishedFor(a) ==
  contractsCache[CHOOSE i \in 1..Len(contractsCache) :
                   contractsCache[i].address = a]

\* the place of an address in the discovery order of the cycle
Discovery(a) == CHOOSE i \in 1..Len(cycle.addrs) : cycle.addrs[i] = a

\* the cycle found chain info for its i-th address, and the address was
\* older than 7 days / was mentioned by n accounts when it was processed
Inspected(i) == cycle.inspected[i].exists
OverSevenDays(i) == cycle.inspected[i].ageMinutes > 7 * 24 * 60
MentionCount(i) == Len(cycle.mentionMap[cycle.addrs[i]])

\* the composite key of a published entry, times 10
CompositeKey10(c) ==
  10 * (Len(c.mentionedBy) * 10) + 10 * (100 - c.riskScore) + c.socialScore

\* C15: stale-unless-popular.  No entry of a published list, and no entry a
\* running cycle has built, was older than 7 days with fewer than 3
\* mentioning accounts when it was processed; and after a cycle that
\* published, every address older than 7 days that had chain info and 3 or
\* more mentioning accounts is in the list, and none with fewer is.
C15_StaleUnlessPopular ==
  /\ \A i \in 1..Len(contractsCache) :
       ~(contractsCache[i].ageMinutes > 7 * 24 * 60
         /\ Len(contractsCache[i].mentionedBy) < 3)
  /\ \A s \in ScanIds : \A i \in 1..Len(scans[s].contracts) :
       ~(scans[s].contracts[i].ageMinutes > 7 * 24 * 60
         /\ Len(scans[s].contracts[i].mentionedBy) < 3)
  /\ CycleSucceeded =>
       \A i \in 1..Len(cycle.addrs) :
         (Inspected(i) /\ OverSevenDays(i)) =>
           (cycle.addrs[i] \in PublishedAddresses <=> MentionCount(i) >= 3)

\* a cycle published an address older than 7 days with 3 mentioning accounts
\* and left out one older than 7 days with fewer
C15_Witness ==
  /\ CycleSucceeded
  /\ \E i, j \in 1..Len(cycle.addrs) :
       /\ Inspected(i) /\ OverSevenDays(i) /\ MentionCount(i) = 3
       /\ cycle.addrs[i] \in PublishedAddresses
       /\ Inspected(j) /\ OverSevenDays(j) /\ MentionCount(j) = 2
       /\ cycle.addrs[j] \notin PublishedAddresses

\* C16: source failure isolation.  A cycle reads every account whether or
\* not earlier reads threw; and after a cycle that published, every address
\* held by a post of an account whose read succeeded was discovered with
\* that account among its mentions, and is in the published list, with that
\* account in mentionedBy, if it had chain info and passed the stale filter.
C16_SourceFailureIsolated ==
  /\ CycleEnded => Len(cycle.fetched) = inputs.hunters
  /\ CycleSucceeded =>
       \A h \in 1..Len(cycle.fetched) : \A a \in cycle.fetched[h].addrs :
         /\ cycle.fetched[h].ok
         /\ a \in SeqToSet(cycle.addrs)
         /\ ALPHA_HUNTERS[h] \in SeqToSet(cycle.mentionMap[a])
         /\ (/\ Inspected(Discovery(a))
             /\ ~(OverSevenDays(Discovery(a))
                   /\ MentionCount(Discovery(a)) < 3))
              => /\ a \in PublishedAddresses
                 /\ ALPHA_HUNTERS[h] \in SeqToSet(PublishedFor(a).mentionedBy)

\* the read of the first account threw and the cycle published an address
\* that the other two accounts mentioned
C16_Witness ==
  /\ CycleSucceeded
  /\ ~cycle.fetched[1].ok
  /\ cycle.fetched[2].ok /\ cycle.fetched[3].ok
  /\ \E i \in 1..Len(contractsCache) :
       contractsCache[i].mentionedBy = <<ALPHA_HUNTERS[2], ALPHA_HUNTERS[3]>>

\* C17: missing market data or metadata removes no address.  After a cycle
\* that published, the list holds exactly the addresses that had chain info
\* and passed the stale filter, whatever the market and metadata calls
\* returned; an entry without market data carries NO_DEX_DATA and no market
\* tag, an entry with market data does not carry NO_DEX_DATA.
C17_OnlyInspectionDrops ==
  /\ CycleSucceeded =>
       /\ Len(cycle.inspected) = Len(cycle.addrs)
       /\ \A i \in 1..Len(cycle.addrs) :
            cycle.addrs[i] \in PublishedAddresses <=>
              (Inspected(i) /\ ~(OverSevenDays(i) /\ MentionCount(i) < 3))
  /\ \A i \in 1..Len(contractsCache) :
       LET c == contractsCache[i]
       IN  IF c.hasDex THEN "NO_DEX_DATA" \notin c.tags
           ELSE /\ "NO_DEX_DATA" \in c.tags
                /\ c.tags \cap {"HIGH_VOLUME", "GOOD_LIQUIDITY", "PUMPING",
                                 "DUMPING", "VERIFIED"} = {}

\* a cycle published one address without market data and left out another
\* that had no chain info
C17_Witness ==
  /\ CycleSucceeded
  /\ Len(cycle.addrs) = 2
  /\ Len(contractsCache) = 1
  /\ ~contractsCache[1].hasDex
  /\ \E i \in 1..2 : ~Inspected(i)

\* C18: in every published entry, and every entry a running cycle has built,
\* mentionedBy holds each account at most once, and its length is the
\* number of distinct accounts whose posts are attached to the entry.
C18_MentionsDistinct ==
  LET Distinct(c) ==
        /\ Cardinality(SeqToSet(c.mentionedBy)) = Len(c.mentionedBy)
        /\ Len(c.mentionedBy) =
             Cardinality({ c.tweets[k].username : k \in 1..Len(c.tweets) })
  IN  /\ \A i \in 1..Len(contractsCache) : Distinct(contractsCache[i])
      /\ \A s \in ScanIds : \A i \in 1..Len(scans[s].contracts) :
           Distinct(scans[s].contracts[i])

\* a published address that two posts of one account hold is mentioned once
C18_Witness ==
  \E i \in 1..Len(contractsCache) :
    LET c == contractsCache[i]
    IN  /\ Len(c.tweets) = 2
        /\ c.tweets[1].username = c.tweets[2].username
        /\ c.tweets[1].id # c.tweets[2].id
        /\ Len(c.mentionedBy) = 1

\* C19: every published list is in descending order of the composite key
\* (mentionCount x 10) + (100 - riskScore) + (socialScore / 10).
C19_SortedByCompositeKey ==
  \A i, j \in 1..Len(contractsCache) :
    i < j => CompositeKey10(contractsCache[i]) >= CompositeKey10(contractsCache[j])

\* the address discovered second has the larger key and is published first
C19_Witness ==
  /\ CycleSucceeded
  /\ Len(contractsCache) = 2
  /\ CompositeKey10(contractsCache[1]) > CompositeKey10(contractsCache[2])
  /\ Discovery(contractsCache[1].address) = 2

\* C20: ranking stability.  Two entries of a published list with the same
\* composite key are in the order in which the cycle discovered and
\* processed their addresses.
C20_TiesKeepDiscoveryOrder ==
  CycleSucceeded =>
    \A i, j \in 1..Len(contractsCache) :
      (i < j /\ CompositeKey10(contractsCache[i])
                  = CompositeKey10(contractsCache[j]))
        => Discovery(contractsCache[i].address)
             < Discovery(contractsCache[j].address)

\* two published addresses with the same key, A2 discovered before A1
C20_Witness ==
  /\ CycleSucceeded
  /\ Len(contractsCache) = 2
  /\ CompositeKey10(contractsCache[1]) = CompositeKey10(contractsCache[2])
  /\ contractsCache[1].address = "A2"
  /\ cycle.addrs = <<"A2", "A1">>

(***************************************************************************)
(* Properties of the scoring path (checked under BuiltSpec)                *)
(***************************************************************************)
\* C21 (as claimed): two runs of the scoring path on the same chain info,
\* market data, token metadata and mentions give contracts that agree on
\* riskScore, liquidityScore, socialScore, tags, verified, marketCap and
\* holders.
C21_ScoringDeterministic ==
  Len(built.runs) >= 2 =>
    \A k \in {"riskScore", "liquidityScore", "socialScore", "tags",
              "verified", "marketCap", "holders"} :
      built.runs[1][k] = built.runs[2][k]

\* C22: in every contract the scoring path builds, socialScore is
\* min(100, mentions x 12 + likes / 15) rounded to the nearest integer, and
\* liquidityScore is liquidity / 1000 kept between 10 and 100 and rounded
\* when market data is present, max(20, 100 - riskScore) otherwise; both lie
\* between 0 and 100.
C22_SocialAndLiquidityScore ==
  \A i \in 1..Len(built.runs) :
    LET c == built.runs[i]
        n == Len(built.mentions)
        likes == SumLikes(built.tweetData)
        \* fifteen times mentions x 12 + likes / 15
        social15 == 15 * 12 * n + likes
        liq == built.dexData.liquidity
    IN  /\ c.socialScore \in 0..100
        /\ c.liquidityScore \in 0..100
        /\ IF social15 >= 15 * 100 THEN c.socialScore = 100
           ELSE /\ 30 * c.socialScore - 15 <= 2 * social15
                /\ 2 * social15 < 30 * c.socialScore + 15
        /\ IF ~built.dexData.present
           THEN c.liquidityScore =
                  (IF 100 - c.riskScore > 20 THEN 100 - c.riskScore ELSE 20)
           ELSE IF liq <= 10 * 1000 THEN c.liquidityScore = 10
           ELSE IF liq >= 100 * 1000 THEN c.liquidityScore = 100
           ELSE /\ 2000 * c.liquidityScore - 1000 <= 2 * liq
                /\ 2 * liq < 2000 * c.liquidityScore + 1000

\* a contract with one mention and 8 likes (12.53 gives 13) and a liquidity
\* of 10,500 (10.5 gives 11)
C22_Witness ==
  /\ Len(built.runs) >= 1
  /\ Len(built.mentions) = 1
  /\ SumLikes(built.tweetData) = 8
  /\ built.dexData.present
  /\ built.dexData.liquidity = 10500
  /\ built.runs[1].socialScore = 13
  /\ built.runs[1].liquidityScore = 11

(***************************************************************************)
(* Properties of the request limiter (checked under LimiterSpec)           *)
(***************************************************************************)
\* the admitted requests that fall in the 60 seconds ending with the i-th
AdmittedInWindow(i) ==
  { j \in 1..Len(limiter.admitted) :
      /\ limiter.admitted[j] <= limiter.admitted[i]
      /\ limiter.admitted[i] - limiter.admitted[j] < 60 * 1000 }

\* C23 (as claimed): at most 10 requests are admitted in any 60-second
\* window, and any two consecutive admitted requests are at least 1 second
\* apart, whatever the interleaving of the callers of enforceRateLimit.
C23_LimiterHolds ==
  /\ \A i \in 1..Len(limiter.admitted) :
       Cardinality(AdmittedInWindow(i)) <= 10
  /\ \A i \in 1..(Len(limiter.admitted) - 1) :
       limiter.admitted[i + 1] - limiter.admitted[i] >= 1000

(***************************************************************************)
(* Properties of the text functions (checked under TextSpec)               *)
(***************************************************************************)
\* the address of the system program: 32 times "1"
SystemAddress == [i \in 1..32 |-> "1"]

\* C24 (as claimed): extractSolanaAddresses returns exactly the regex
\* matches of the text that decode to a well-formed public key and are not
\* the system address: no other well-formed address is dropped and no
\* malformed one is kept, whatever surrounds the matches.
C24_ExtractsExactlyWellFormed ==
  parsed.extractDone =>
    parsed.addresses =
      SelectSeq(RegexMatches(parsed.text),
                LAMBDA addr : IsPublicKey(addr) /\ addr # SystemAddress)

\* the marker "CA:" in its letter cases
MarkerForms == { <<"C", "A", ":">>, <<"C", "a", ":">>, <<"c", "A", ":">>,
                 <<"c", "a", ":">> }

\* C30 (as claimed): a post whose text contains the marker "CA:", in any
\* letter case, passes the relevance filter, also when it contains no other
\* keyword.
C30_MarkerPassesFilter ==
  (parsed.filterDone /\ \E m \in MarkerForms : includes(parsed.text, m))
    => parsed.relevant

(***************************************************************************)
(* Properties of the cursors (checked under CursorSpec)                    *)
(***************************************************************************)
\* C25 (as claimed): after a source read that succeeded with at least one
\* post, the cursor of the source is the id of the newest post of that read,
\* and the read returned no post that an earlier read of the source had
\* returned.
C25_CursorIsNewestPost ==
  \A k \in 1..Len(cycle.fetched) :
    (cycle.fetched[k].ok /\ cycle.fetched[k].posts > 0) =>
      /\ tweetIdCache[Hunters[k]] = cycle.fetched[k].newest
      /\ ~cycle.fetched[k].reread

\* the step is a timeline read of account h settling
ReadOf(h) ==
  /\ \E s \in ScanIds : scans[s].pc = "fetch" /\ Hunters[scans[s].hi] = h
  /\ Len(cycle'.fetched) = Len(cycle.fetched) + 1

\* the read that settles in the step
ReadNow == cycle'.fetched[Len(cycle'.fetched)]

\* C29: a source read that fails or returns no post leaves the cursor of
\* its source unchanged; no read changes the cursor of another source; and
\* a cursor changes only in the step in which a read of its own source
\* settles that succeeded and returned at least one post.
C29_CursorFrame ==
  [][\A h \in HunterSet :
       /\ tweetIdCache'[h] # tweetIdCache[h] =>
            (ReadOf(h) /\ ReadNow.ok /\ ReadNow.posts > 0)
       /\ (ReadOf(h) /\ (~ReadNow.ok \/ ReadNow.posts = 0)) =>
            tweetIdCache' = tweetIdCache
       /\ ReadOf(h) =>
            \A g \in HunterSet \ {h} : tweetIdCache'[g] = tweetIdCache[g]]_vars

\* in the second cycle a read failed and a read returned nothing, and the
\* cursors the first cycle set are still there
C29_Witness ==
  /\ cycle.id = 2
  /\ Len(cycle.fetched) = 2
  /\ ~cycle.fetched[1].ok
  /\ cycle.fetched[2].ok /\ cycle.fetched[2].posts = 0
  /\ tweetIdCache[Hunters[1]] # 0
  /\ tweetIdCache[Hunters[2]] # 0

(***************************************************************************)
(* Pacing of the address loop (checked under Spec)                         *)
(***************************************************************************)
\* C26 (as claimed): within a cycle the chain inspection of a following
\* address starts only in the step in which the inter-address delay has
\* elapsed, also when the address before it was skipped.
C26_DelayBetweenInspections ==
  [][\A s \in ScanIds :
       (/\ scans'[s].pc = "info"
        /\ scans'[s].processedCount > 1
        /\ scans'[s].processedCount # scans[s].processedCount)
         => scans[s].pc = "adelay"]_vars

(***************************************************************************)
(* Posts attached to an address (checked under CursorSpec)                 *)
(***************************************************************************)
\* no post occurs twice in a list of posts
EachPostOnce(posts) ==
  \A i, j \in 1..Len(posts) :
    (posts[i].id = posts[j].id /\ posts[i].username = posts[j].username)
      => i = j

\* C27 (as claimed): for every address the list of posts a cycle attaches
\* to it holds each post at most once, also when the text of the post
\* contains the address several times; so do the posts of every published
\* contract, whose likes enter socialScore.
C27_EachPostCountedOnce ==
  /\ \A s \in ScanIds : \A a \in Addresses : EachPostOnce(scans[s].tweetMap[a])
  /\ \A i \in 1..Len(contractsCache) : EachPostOnce(contractsCache[i].tweets)

(***************************************************************************)
(* What a cycle keeps of the cycle before (checked under CursorSpec)       *)
(***************************************************************************)
\* the reads of the cycle for an account
ReadsOf(account) ==
  { k \in 1..Len(cycle.fetched) : Hunters[k] = account }

\* C28: after a cycle that replaced the Result Cache, every contract of the
\* cache comes from the posts read in that cycle: its address was held by a
\* post of the cycle, each account in mentionedBy is one whose read in the
\* cycle held the address, and each of its posts was returned by the read
\* of its account in the cycle; so an address that no post of the cycle
\* held is absent, whatever the cache held before.
C28_CacheBuiltFromThisCycle ==
  (CycleEnded /\ cycle.wrote) =>
    \A i \in 1..Len(contractsCache) :
      LET c == contractsCache[i]
      IN  /\ \E k \in 1..Len(cycle.fetched) : c.address \in cycle.fetched[k].addrs
          /\ \A m \in 1..Len(c.mentionedBy) :
               \E k \in ReadsOf(c.mentionedBy[m]) :
                 c.address \in cycle.fetched[k].addrs
          /\ \A t \in 1..Len(c.tweets) :
               \E k \in ReadsOf(c.tweets[t].username) :
                 /\ cycle.fetched[k].ok
                 /\ c.tweets[t].id <= cycle.fetched[k].newest
                 /\ c.tweets[t].id > cycle.fetched[k].newest - cycle.fetched[k].posts

\* the second cycle published an address with one mentioning account that
\* the cache before it held with two
C28_Witness ==
  /\ cycle.id = 2
  /\ CycleSucceeded
  /\ Len(cycle.cacheBefore) = 1
  /\ Len(cycle.cacheBefore[1].mentionedBy) = 2
  /\ Len(contractsCache) = 1
  /\ contractsCache[1].address = cycle.cacheBefore[1].address
  /\ contractsCache[1].mentionedBy = <<Hunters[2]>>

(***************************************************************************)
(* getContractInfo: holder concentration and signature count               *)
(***************************************************************************)
RECURSIVE SumAt(_, _)
SumAt(accounts, idx) ==
  IF idx = {} THEN 0
  ELSE LET i == CHOOSE j \in idx : TRUE
       IN  accounts[i] + SumAt(accounts, idx \ {i})

\* the largest total that at most five of the balances reach
TopFive(accounts) ==
  LET totals == { SumAt(accounts, idx) :
                    idx \in { x \in SUBSET (1..Len(accounts)) :
                                Cardinality(x) <= 5 } }
  IN  CHOOSE t \in totals : \A u \in totals : u <= t

\* the risk the specification gives a share of top / total (total > 0)
ShareBand(top, total) ==
  IF top * 100 > 80 * total THEN 90
  ELSE IF top * 100 > 60 * total THEN 70
  ELSE IF top * 100 > 40 * total THEN 50
  ELSE IF top * 100 > 20 * total THEN 30
  ELSE 10

HolderDataMissing ==
  \/ chain.fails \in {"getTokenSupply", "getTokenLargestAccounts"}
  \/ chain.largestAccounts = <<>>

\* C31: the holder risk of an inspected address is 50 when the supply or
\* the holder list could not be read or the list is empty; otherwise, for a
\* positive supply, it is 90, 70, 50, 30 or 10 as the share of the five
\* largest balances in the supply is above 80, 60, 40, 20 percent or not,
\* and no address with a share at least as large has a smaller risk.
C31_HolderRiskBands ==
  chain.done /\ chain.info.exists =>
    /\ HolderDataMissing => chain.info.holderRisk = 50
    /\ ~HolderDataMissing /\ chain.supply > 0 =>
         /\ chain.info.holderRisk =
              ShareBand(TopFive(chain.largestAccounts), chain.supply)
         /\ \A h \in HolderStates :
              /\ h.largestAccounts # <<>>
              /\ h.amount > 0
              /\ TopFive(h.largestAccounts) * chain.supply
                   >= TopFive(chain.largestAccounts) * h.amount
              => calculateHolderRisk(h.largestAccounts,
                                     [present |-> TRUE, amount |-> h.amount])
                   >= chain.info.holderRisk

\* six accounts, the five largest holding exactly 80 percent
C31_Witness ==
  /\ chain.done /\ chain.info.exists /\ ~HolderDataMissing
  /\ chain.supply > 0
  /\ Len(chain.largestAccounts) = 6
  /\ chain.largestAccounts[6] > 0
  /\ TopFive(chain.largestAccounts) * 100 = 80 * chain.supply
  /\ chain.info.holderRisk = 70


\* the risk score of the inspected address had its signature count been n
ScoreWithSignatures(n) ==
  calculateRiskScore([chain.info EXCEPT !.totalSignatures = n], InfoTweets,
                     InfoMentions, NoDex)

\* C36: an inspected address carries at most 1000 signatures, however many
\* it has on chain, and its risk score is the one of an address with 500
\* signatures (no adjustment) or, below 10 signatures, with 5 (+15): the
\* adjustment of -10 for more than 1000 signatures is not in it.
C36_SignatureCountCapped ==
  chain.done /\ chain.info.exists =>
    /\ chain.info.totalSignatures <= 1000
    /\ chain.info.totalSignatures <= chain.signatures
    /\ chain.riskScore = IF chain.signatures < 10 THEN ScoreWithSignatures(5)
                         ELSE ScoreWithSignatures(500)

\* an address with more than 1000 signatures on chain was inspected
C36_Witness ==
  /\ chain.done /\ chain.info.exists
  /\ chain.signatures > 1000
  /\ chain.info.totalSignatures = 1000
  /\ chain.riskScore > ScoreWithSignatures(1001)


(***************************************************************************)
(* fetchWithBackoff                                                        *)
(***************************************************************************)
Retryable(status) == status = 429 \/ status >= 500

FetcherDone == fetcher.pc \in {"returned", "thrown"}

\* what holds of a call of fetchWithBackoff at every moment
FetcherBounded ==
  LET n == Len(fetcher.attempts)
  IN  /\ n <= fetcher.retries
      /\ \A k \in 1..(n - 1) : Retryable(fetcher.attempts[k])
      /\ \A k \in 1..Len(fetcher.delays) :
           fetcher.delays[k] <= 30000
      /\ fetcher.pc = "thrown" =>
           /\ fetcher.thrown.message # "Max retries reached"
           /\ fetcher.thrown.attempt = n
           /\ fetcher.thrown.status = fetcher.attempts[n]
      /\ n >= 1 /\ fetcher.attempts[1] # 200 /\ ~Retryable(fetcher.attempts[1])
           => fetcher.pc = "thrown" /\ n = 1

\* C32: a call of fetchWithBackoff ends; it invokes the request at most
\* `retries` times, every invocation but the last answered 429 or 5xx, every
\* backoff delay is at most 30 seconds, the error thrown is the one of the
\* last invocation, and a first error that is neither 429 nor 5xx is thrown
\* at once.
C32_BackoffTerminates == []FetcherBounded /\ <>FetcherDone

\* three invocations with the default retries, the backoff cut to the cap
C32_Witness ==
  /\ fetcher.pc = "thrown"
  /\ fetcher.retries = MAX_RETRIES
  /\ Len(fetcher.attempts) = MAX_RETRIES
  /\ fetcher.thrown.status = 503
  /\ \E k \in 1..Len(fetcher.delays) : fetcher.delays[k] = 30000


(***************************************************************************)
(* Transaction tracking                                                    *)
(***************************************************************************)
\* C37: once a poll has reported status "2" the tracking has returned, once
\* a poll has reported status "3" it has raised 'Transaction failed', and
\* 'Transaction tracking timed out' is raised only when no poll reported a
\* final status and the timeout has elapsed.
C37_TrackingStopsAtFinalStatus ==
  tracker.on =>
    /\ tracker.final = "2" => tracker.pc = "returned"
    /\ tracker.final = "3" =>
         tracker.pc = "thrown" /\ tracker.message = "Transaction failed"
    /\ tracker.message = "Transaction tracking timed out" =>
         tracker.final = "" /\ tracker.elapsed >= 60000


(***************************************************************************)
(* Subscribers and the Result Cache                                        *)
(***************************************************************************)
\* C33: the contracts of the last contracts-update held by every connected
\* socket are the current Result Cache, whatever connections, disconnections
\* and scan cycles came before.
C33_SubscribersHoldCache ==
  \A c \in ClientIds :
    clients[c].state = "connected" =>
      /\ clients[c].last = contractsCache
      /\ clients[c].lastUpdate = lastScanTime

\* a step that assigns the Result Cache: it is the publish step of a cycle
\* that ended without exception, and writes the list and the time together
WrittenByGoodCycle ==
  /\ cycle'.wrote /\ cycle'.outcome = "ok"
  /\ cycle.outcome = ""
  /\ contractsCache' = cycle'.result
  /\ lastScanTime' = cycle'.at
  /\ lastScanTime' # lastScanTime

\* C34: a non-empty contractsCache has a lastScanTime; lastScanTime never
\* decreases and never becomes null again; and a step that changes either
\* of the two is the publish step of a successful cycle, which writes both.
C34_CacheAndTimeTogether ==
  /\ [](contractsCache # <<>> => lastScanTime # 0)
  /\ [][/\ lastScanTime' >= lastScanTime
        /\ lastScanTime # 0 => lastScanTime' # 0
        /\ contractsCache' # contractsCache \/ lastScanTime' # lastScanTime
             => WrittenByGoodCycle]_vars


(***************************************************************************)
(* Tags that exclude each other                                            *)
(***************************************************************************)
\* at most one tag of the group is in the tag set
AtMostOne(tags, group) == Cardinality(tags \cap group) <= 1

\* C35: the tags computed for a contract never hold LOW_RISK with
\* HIGH_RISK, two of ULTRA_FRESH, FRESH and NEW, TRENDING with POPULAR,
\* PUMPING with DUMPING, or NO_DEX_DATA with a tag that needs market data;
\* and LOW_RISK is among them exactly when the contract's riskScore is
\* below 30.
C35_TagsExcludeEachOther ==
  scored.applied =>
    /\ AtMostOne(scored.tags, {"LOW_RISK", "HIGH_RISK"})
    /\ AtMostOne(scored.tags, {"ULTRA_FRESH", "FRESH", "NEW"})
    /\ AtMostOne(scored.tags, {"TRENDING", "POPULAR"})
    /\ AtMostOne(scored.tags, {"PUMPING", "DUMPING"})
    /\ "NO_DEX_DATA" \in scored.tags =>
         scored.tags \cap {"HIGH_VOLUME", "GOOD_LIQUIDITY", "PUMPING",
                           "DUMPING", "VERIFIED"} = {}
    /\ "LOW_RISK" \in scored.tags <=> scored.riskScore < 30

\* a ten minute old address with six mentions, rising price and a score
\* below 30: one tag of each group
C35_Witness ==
  /\ scored.applied
  /\ scored.riskScore < 30
  /\ scored.info.ageMinutes = 10
  /\ Len(scored.mentions) = 6
  /\ scored.dexData.priceChange24h = 60
  /\ {"LOW_RISK", "ULTRA_FRESH", "TRENDING", "PUMPING"} \subseteq scored.tags


====
